---- MODULE Spec2Model ----
(***************************************************************************)
(* Model of the tool-invocation orchestration session of                   *)
(* gemini-fiddler-client.py: the transport session over the child's pipes, *)
(* the handshake and discovery done by main(), name resolution in          *)
(* call_tool, and the bounded multi-turn loop of chat().                   *)
(***************************************************************************)
EXTENDS Naturals, Sequences, FiniteSets, TLC

(***************************************************************************)
(* Bounds of the exploration.                                              *)
(***************************************************************************)
\* largest turn-budget ceiling (GEMINI_MAX_TOOL_CALLS) explored
MaxCeiling == 1

\* a further query is typed only while the session has made fewer agent
\* calls than this
MaxAgentCalls == 1

\* requests of one session that run into the 30 s timeout
MaxTimeouts == 1

\* elements of an array in an agent text
MaxElems == 2

\* the lines the child writes to its stderr
MaxStderrLines == 2

(***************************************************************************)
(* Tool names.  A name is kept as the pieces the resolver looks at: whether*)
(* the string starts with "fiddler_mcp__", and the dot-separated parts of  *)
(* what follows.                                                           *)
(***************************************************************************)
\* the string "fiddler_mcp__" + s
P(s) == [pre |-> TRUE, parts |-> <<s>>]

\* the string s (no prefix, no dot)
U(s) == [pre |-> FALSE, parts |-> <<s>>]

\* the string a + "." + b
D(a, b) == [pre |-> FALSE, parts |-> <<a, b>>]

\* the string a + "." + b + "." + c
D3(a, b, c) == [pre |-> FALSE, parts |-> <<a, b, c>>]

\* no tool name (Python None)
NoName == [pre |-> FALSE, parts |-> << >>]

NON_PREFIXED_ALIASES ==
    ("get_sessions" :> "live_sessions") @@
    ("live_sessions" :> "live_sessions") @@
    ("list_sessions" :> "live_sessions") @@
    ("session_body" :> "session_body") @@
    ("get_body" :> "session_body") @@
    ("session_headers" :> "session_headers") @@
    ("get_headers" :> "session_headers") @@
    ("compare_sessions" :> "compare_sessions") @@
    ("sessions_search" :> "sessions_search") @@
    ("search_sessions" :> "sessions_search") @@
    ("live_stats" :> "live_stats") @@
    ("get_stats" :> "live_stats") @@
    ("sessions_timeline" :> "sessions_timeline") @@
    ("sessions_clear" :> "sessions_clear")

TOOL_ALIASES ==
    ("session_details" :> "session_body") @@
    ("sessions_details" :> "session_body") @@
    ("get_session" :> "session_body") @@
    ("get_body" :> "session_body") @@
    ("body" :> "session_body") @@
    ("list_sessions" :> "live_sessions") @@
    ("sessions_list" :> "live_sessions") @@
    ("get_sessions" :> "live_sessions") @@
    ("sessions" :> "live_sessions") @@
    ("get_headers" :> "session_headers") @@
    ("headers" :> "session_headers") @@
    ("stats" :> "live_stats") @@
    ("get_stats" :> "live_stats") @@
    ("search" :> "sessions_search") @@
    ("search_sessions" :> "sessions_search") @@
    ("compare" :> "compare_sessions") @@
    ("clear" :> "sessions_clear") @@
    ("timeline" :> "sessions_timeline")

\* "." in tool_name and not tool_name.startswith("fiddler_mcp__"):
\* a two-part name becomes "fiddler_mcp__" + parts[1]
DotRepair(n) ==
    IF Len(n.parts) > 1 /\ ~n.pre
    THEN IF Len(n.parts) = 2 THEN P(n.parts[2]) ELSE n
    ELSE n

\* tool_name in NON_PREFIXED_ALIASES
NonPrefixedStep(n) ==
    IF ~n.pre /\ Len(n.parts) = 1 /\ n.parts[1] \in DOMAIN NON_PREFIXED_ALIASES
    THEN P(NON_PREFIXED_ALIASES[n.parts[1]])
    ELSE n

\* tool_name in TOOL_ALIASES
PrefixedStep(n) ==
    IF n.pre /\ Len(n.parts) = 1 /\ n.parts[1] \in DOMAIN TOOL_ALIASES
    THEN P(TOOL_ALIASES[n.parts[1]])
    ELSE n

\* ResolveName without the lookup in NON_PREFIXED_ALIASES
ResolveName_noprefixed(n) == PrefixedStep(DotRepair(n))

\* the rewriting call_tool applies to the candidate before it validates it
ResolveName(n) == PrefixedStep(NonPrefixedStep(DotRepair(n)))

\* the tools 5ire-bridge.py registers
BridgeTools ==
    { P("live_sessions"), P("sessions_search"), P("session_headers"),
      P("session_body"), P("compare_sessions"), P("live_stats"),
      P("sessions_timeline"), P("sessions_clear") }

SEARCH_TOOL == P("sessions_search")

\* the follow-up fetch sent to the headers tool instead
BODY_TOOL_headers == P("session_headers")

BODY_TOOL == P("session_body")

(***************************************************************************)
(* Messages on the child's pipes and the values call_tool works on.        *)
(***************************************************************************)
\* content_length of a body: absent, or a number of bytes
NoSize == [present |-> FALSE, n |-> 0]

Size(n) == [present |-> TRUE, n |-> n]

\* "size_bytes > 50000" in _auto_fetch_session_body
SMART_EXTRACT_THRESHOLD == 50000

\* what _auto_fetch_session_body returned and call_tool attached under
\* _follow_up.  meta: _auto_fetch_metadata is present, and dupflag is its
\* has_duplicate_ids; note is the auto_note ("lookup_failed" stands for the
\* key note of a failed lookup) and notedup tells that it ends with the
\* "[Session ... total with this ID]" part; error: the mapping has an error
\* key; over: response_body came in longer than the limit, clipped: it
\* was cut to the limit and ends with the "shortened" marker, analyzed: it
\* was replaced by the formatted smart extraction, path:
\* saved_response_path is present; rover, rclipped and rpath say the same
\* of request_body
NoFollow ==
    [meta |-> FALSE, dupflag |-> FALSE, note |-> "", notedup |-> FALSE,
     error |-> FALSE, over |-> FALSE, clipped |-> FALSE, analyzed |-> FALSE,
     path |-> FALSE, rover |-> FALSE, rclipped |-> FALSE, rpath |-> FALSE]

\* a value as _parse_tool_response returns it.  type is "dict", "list" or
\* "list0" (an empty list); src tells which part of the reply it is;
\* success is "true", "false" or "none" (the key is absent); error tells
\* whether an error key is present; sessions is the number of matches and
\* noid tells that the first match has a blank id; truncated, js (the
\* content type contains "javascript"), size (content_length) and smart
\* (smart extraction is present) describe a body; valid is the valid-name
\* list of an unknown-tool failure; follow tells what the automatic body
\* fetch attached under _follow_up and fu describes what was attached; dup
\* tells that several matches of a search carry the id of the first; len
\* and rlen are the lengths of response_body and request_body: "none"
\* (absent or empty), "short" or "long" (over snippet_limit: 8000
\* characters of a response, 4000 of a request)
Res(success, error, sessions, truncated) ==
    [success |-> success, error |-> error, sessions |-> sessions,
     truncated |-> truncated, valid |-> {}, follow |-> "none",
     type |-> "dict", src |-> "payload", noid |-> FALSE, js |-> FALSE,
     size |-> NoSize, smart |-> FALSE, dup |-> FALSE, len |-> "none",
     rlen |-> "none", fu |-> NoFollow]

NoResult == Res("none", FALSE, 0, FALSE)

\* the body b as the server sent it, nothing added
Merged(b) ==
    [NoFollow EXCEPT !.error = b.error, !.over = b.len = "long",
                     !.rover = b.rlen = "long"]

\* _auto_fetch_session_body when the preview is truncated and the full fetch fails: the preview,
\* with its metadata, gets the "full fetch failed" auto_note
FullFetchFailed(b, has_duplicates) ==
    [Merged(b) EXCEPT !.meta = TRUE, !.dupflag = has_duplicates,
                      !.note = "full_fetch_failed"]

\* ... from the smart extraction on: body_data b (the preview with its
\* metadata, or the full payload that replaced it) has its bodies cut to
\* the limits and saved, and gets its auto_note.  saved and rsaved tell
\* that _save_body_to_file returned a path for the response and for the
\* request.  The formatted extraction is taken to be non-empty and within
\* its own limit
Annotated(b, meta, has_duplicates, saved, rsaved) ==
    LET path == saved /\ (b.smart \/ b.len # "none")
        rpath == rsaved /\ b.rlen # "none"
        set_note ==
            IF b.smart
            THEN IF path THEN "smart_saved_to_path" ELSE "smart"
            ELSE IF path
            THEN IF ~b.truncated THEN "full_saved_to_path"
                 ELSE "truncated_saved_to_path"
            ELSE ""
        base_note == IF ~b.truncated THEN "full_body_retrieved"
                     ELSE "truncated_saved_to_disk"
    IN  [meta |-> meta, dupflag |-> meta /\ has_duplicates,
         note |-> IF set_note # "" THEN set_note ELSE base_note,
         notedup |-> set_note = "" /\ has_duplicates,
         error |-> b.error,
         over |-> b.len = "long",
         clipped |-> ~b.smart /\ b.len = "long",
         analyzed |-> b.smart,
         path |-> path,
         rover |-> b.rlen = "long",
         rclipped |-> b.rlen = "long",
         rpath |-> rpath]

\* "{size_bytes:,}" in the auto_note_details of a saved smart extraction
\* raises TypeError when no content_length was reported
FormatRaises(b, size_bytes, saved) ==
    b.smart /\ saved /\ ~size_bytes.present


\* {"error": ...}: what send_mcp_request returns instead of raising, and
\* what _parse_tool_response makes of a reply without a result
ErrorResult == [Res("none", TRUE, 0, FALSE) EXCEPT !.src = "error"]

\* the unknown-tool failure without its available_tools list
UnknownToolResult_novalid(valid_tools) == ErrorResult

\* {"error": "Unknown tool: ...", "message": ..., "hint": ...,
\*  "available_tools": valid_tools}
UnknownToolResult(valid_tools) == [ErrorResult EXCEPT !.valid = valid_tools]

\* {"text": text_data}; the text of a reply with isError is the message of
\* the failure
TextResult(message) ==
    [NoResult EXCEPT !.src = IF message THEN "error_text" ELSE "text"]

\* json.loads(text_data) when the text is a JSON array
ListResult(empty) ==
    [NoResult EXCEPT !.type = IF empty THEN "list0" ELSE "list",
                     !.src = "parsed"]

\* the content item itself, {"data": data}, response_envelope, result and
\* {"result": result}
ItemResult == [NoResult EXCEPT !.src = "item"]

DataResult == [NoResult EXCEPT !.src = "data"]

EnvelopeResult == [NoResult EXCEPT !.src = "response"]

RawResult == [NoResult EXCEPT !.src = "result"]

WrappedResult == [NoResult EXCEPT !.src = "wrapped"]

\* one element of result["content"]: a dict with its type and the kind of
\* its text ("object": the JSON text of a mapping, "array", "empty_array",
\* "broken": starts with "{" and does not parse, "plain", "error_message":
\* the plain text of a reply with isError, "absent": no text key), or
\* something that is not a dict
Item(type, text) == [isdict |-> TRUE, type |-> type, text |-> text]

NonDictItem == [isdict |-> FALSE, type |-> "", text |-> "absent"]

\* response["result"]: dict tells whether it is a dict, content is its
\* content list (empty when absent), flat tells whether it has one of the
\* keys success, error, sessions, bridge_status, resp describes its
\* "response" key ("absent", "data_dict", "data_scalar", "nodata"), and
\* payload is the mapping the reply carries
Envelope(dict, content, flat, resp, payload) ==
    [dict |-> dict, content |-> content, flat |-> flat, resp |-> resp,
     payload |-> payload]

NoEnvelope == Envelope(TRUE, << >>, FALSE, "absent", NoResult)

\* the reply FastMCP builds from the dict a tool returns
TextContent(p) ==
    Envelope(TRUE, << Item("text", "object") >>, FALSE, "absent", p)

\* the reply FastMCP builds when the tool or the validation of its
\* arguments raises
ToolErrorContent ==
    Envelope(TRUE, << Item("text", "error_message") >>, FALSE, "absent",
             NoResult)

\* a request line written to the child's stdin; extract is the Python value
\* sent as smart_extract
Msg(id, method, name, full, extract) ==
    [id |-> id, method |-> method, name |-> name, full |-> full,
     extract |-> extract]

\* no request in flight
Idle ==
    [id |-> 0, method |-> "", name |-> NoName, written |-> FALSE,
     full |-> FALSE, extract |-> "False"]

\* a reply line on the child's stdout, or the dictionary send_mcp_request
\* returns: key is "result", "error" or "garbage" (a line that is not JSON);
\* err is the local failure when the dictionary was not read from the pipe;
\* payload is response["result"]
Reply(id, key, err, tools, payload) ==
    [id |-> id, key |-> key, err |-> err, tools |-> tools,
     payload |-> payload]

\* the results a tool of the bridge may answer with
PayloadsFor(name) ==
    IF name = SEARCH_TOOL
    THEN { Res("true", FALSE, 0, FALSE), Res("true", FALSE, 1, FALSE),
           Res("false", TRUE, 0, FALSE) }
    ELSE IF name = BODY_TOOL
    THEN { Res("true", FALSE, 0, FALSE), Res("true", FALSE, 0, TRUE),
           Res("false", TRUE, 0, FALSE) }
    ELSE { Res("true", FALSE, 0, FALSE), Res("false", TRUE, 0, FALSE) }

\* the bodies another tool server may answer a preview request with
PreviewBodies ==
    { Res("true", FALSE, 0, FALSE), Res("false", TRUE, 0, FALSE), NoResult }
    \cup
    { [Res("true", FALSE, 0, t) EXCEPT !.len = l, !.rlen = q] :
        t \in BOOLEAN, l \in {"short", "long"}, q \in {"none", "long"} }
    \cup
    { [Res("true", FALSE, 0, TRUE) EXCEPT !.js = j, !.size = z] :
        j \in BOOLEAN,
        z \in { NoSize, Size(0), Size(SMART_EXTRACT_THRESHOLD),
                Size(SMART_EXTRACT_THRESHOLD + 1) } }

\* the bodies another tool server may answer a full-payload request with
FullBodies ==
    { Res("true", FALSE, 0, FALSE), Res("false", TRUE, 0, FALSE),
      [Res("true", FALSE, 0, FALSE) EXCEPT !.smart = TRUE] }
    \cup
    { [Res("true", FALSE, 0, t) EXCEPT !.len = "long", !.smart = x] :
        t \in BOOLEAN, x \in BOOLEAN }

\* the results another tool server may answer request m with
OtherPayloadsFor(m) ==
    IF m.name = SEARCH_TOOL
    THEN PayloadsFor(SEARCH_TOOL) \cup
         { [Res("true", FALSE, 1, FALSE) EXCEPT !.noid = TRUE],
           [Res("true", FALSE, 2, FALSE) EXCEPT !.dup = TRUE] }
    ELSE IF m.name = BODY_TOOL
    THEN IF m.full THEN FullBodies ELSE PreviewBodies
    ELSE PayloadsFor(m.name) \cup { Res("true", FALSE, 1, FALSE) }

\* the envelopes a tool server may wrap the result p in, and the results
\* that are no mapping of the tool at all
EnvelopesOf(p) ==
    { TextContent(p),
      Envelope(TRUE, << NonDictItem, Item("text", "object") >>, FALSE,
               "absent", p),
      Envelope(TRUE, << >>, TRUE, "absent", p),
      Envelope(TRUE, << NonDictItem >>, TRUE, "absent", p),
      Envelope(TRUE, << >>, FALSE, "data_dict", p) }

OddEnvelopes ==
    { Envelope(TRUE, << Item("text", k) >>, FALSE, "absent", NoResult) :
        k \in { "array", "empty_array", "broken", "plain",
                "error_message" } }
    \cup
    { Envelope(TRUE, << Item("image", "absent") >>, FALSE, "absent", NoResult),
      Envelope(TRUE, << >>, FALSE, "data_scalar", NoResult),
      Envelope(TRUE, << >>, FALSE, "nodata", NoResult),
      Envelope(TRUE, << >>, FALSE, "absent", NoResult),
      Envelope(FALSE, << >>, FALSE, "absent", NoResult) }

(***************************************************************************)
(* The agent's texts.                                                      *)
(***************************************************************************)
\* one piece of an agent text. k is "prose", "object", "array", "scalar" (a
\* JSON number or string), "bare" (the call syntax fiddler_mcp__name(...)
\* outside JSON) or "fragment" (the cut-off start of a JSON value)
Seg(k, shape, tool, arg, deep, elems) ==
    [k |-> k, shape |-> shape, tool |-> tool, arg |-> arg, deep |-> deep,
     elems |-> elems]

\* prose: "plain", "label" (it ends with "Tool Call:" or "Next:") or
\* "labelonly" (it is nothing but such a label)
Prose(shape) == Seg("prose", shape, NoName, 0, FALSE, << >>)

\* a JSON object: "call" has the keys tool and arguments, "toolonly" the
\* key tool alone, "tool_code" the key tool_code with fiddler_mcp__name(...)
\* in the code, "other" none of them, "mentions" none of them but a string
\* value holding fiddler_mcp__name(...); arg names the argument mapping;
\* deep says that mappings are nested more than one level inside it
Obj(shape, tool, arg, deep) == Seg("object", shape, tool, arg, deep, << >>)

\* a JSON array of objects and scalars
Arr(elems) == Seg("array", "", NoName, 0, FALSE, elems)

\* a JSON number or string: "plain", or "mentions" for a string holding
\* fiddler_mcp__name(...)
Scalar(shape, tool) == Seg("scalar", shape, tool, 0, FALSE, << >>)

\* fiddler_mcp__name(args) in the text: "closed", or "open" when no ")"
\* follows on the line
Bare(shape, tool, arg) == Seg("bare", shape, tool, arg, FALSE, << >>)

Fragment == Seg("fragment", "", NoName, 0, FALSE, << >>)

\* a text as the extractor sees it: surrounded by whitespace or not, fenced
\* ("none", "block": ``` lines of their own around the body, "inline":
\* fences and body on one line, "open": the opening fence alone), and the
\* pieces of the body in order
Body(ws, fence, segs) == [ws |-> ws, fence |-> fence, segs |-> segs]

\* what generate_content yields: kind is "empty" (no text at all), "text",
\* "raise" (an exception instead of a text) or "blocked_msg" (the message
\* chat puts in the place of an empty text); the texts are a plain answer
\* and a {tool, arguments} object, possibly after some explanatory text
AgentText(kind, tool, pre) ==
    [kind |-> IF kind = "call" THEN "text" ELSE kind, ws |-> FALSE,
     fence |-> "none",
     segs |-> IF kind = "call"
              THEN (IF pre THEN << Prose("plain") >> ELSE << >>)
                   \o << Obj("call", tool, 0, FALSE) >>
              ELSE IF kind \in {"text", "blocked_msg"}
              THEN << Prose("plain") >>
              ELSE << >>]

EmptyText == AgentText("empty", NoName, FALSE)

PlainText == AgentText("text", NoName, FALSE)

\* "Analysis blocked by safety filters. ..." / "Follow-up analysis blocked
\* by safety filters. ..."
BlockedMessage == AgentText("blocked_msg", NoName, FALSE)

\* the names the agent asks for
AgentNames == { P("sessions_search"), U("live_sessions"), U("no_such_tool") }

AgentTexts ==
    { EmptyText, PlainText } \cup
    { AgentText("call", n, FALSE) : n \in AgentNames }

\* the texts of a model that answers or asks for one tool
TerseTexts == { PlainText, AgentText("call", U("live_sessions"), FALSE) }

\* the texts of a model that explains itself before it asks for a tool
ChatTexts ==
    { EmptyText, PlainText, AgentText("call", U("live_sessions"), TRUE),
      AgentText("call", U("no_such_tool"), FALSE) }

\* the two tools the texts of any model name
T1 == P("live_sessions")

T2 == P("live_stats")

\* the objects an array of such a text is made of
ExtractElements ==
    { Obj("call", T1, 1, FALSE), Obj("call", T2, 2, FALSE),
      Obj("toolonly", T1, 0, FALSE), Obj("other", NoName, 0, FALSE) }

\* its arrays, of at most MaxElems elements
ExtractArrays ==
    { Arr(e) : e \in UNION { [1..n -> ExtractElements] : n \in 0..MaxElems } }

\* its objects, scalars and bare calls
ExtractSingles ==
    ExtractElements \cup
    { Obj("call", T1, 1, TRUE), Obj("mentions", T2, 0, FALSE),
      Obj("tool_code", T1, 1, FALSE), Scalar("plain", NoName),
      Scalar("mentions", T2), Bare("closed", T1, 1), Bare("open", T1, 1) }

\* a text of any model
ExtractText(ws, fence, segs) ==
    [kind |-> IF ~ws /\ fence = "none" /\ segs = << >>
              THEN "empty" ELSE "text",
     ws |-> ws, fence |-> fence, segs |-> segs]

\* the texts of any model: nothing, prose, or a single value, bare or
\* inside a fence, with or without whitespace around; a single value after
\* or before prose; an array, bare, inside a fence or after prose
ExtractTexts ==
    { ExtractText(ws, "none", segs) :
        ws \in BOOLEAN,
        segs \in { << >>, << Prose("plain") >> }
             \cup { << v >> : v \in ExtractSingles } }
    \cup
    { ExtractText(ws, f, << v >>) :
        ws \in BOOLEAN, f \in {"block", "inline"}, v \in ExtractSingles }
    \cup
    { ExtractText(FALSE, "none", << Prose(p), v >>) :
        p \in {"plain", "label", "labelonly"}, v \in ExtractSingles }
    \cup
    { ExtractText(FALSE, "none", << v, Prose("plain") >>) :
        v \in ExtractSingles }
    \cup
    { ExtractText(FALSE, f, << a >>) :
        f \in {"none", "block"}, a \in ExtractArrays }
    \cup
    { ExtractText(FALSE, "none", << Prose("plain"), a >>) :
        a \in ExtractArrays }

\* the dictionary parse_gemini_response returns: the tool, the argument
\* mapping, and how the mapping was obtained ("json": the object's own
\* mapping, "code" and "bare": rebuilt by a regular expression)
Cand(tool, arg, via) == [tool |-> tool, arg |-> arg, via |-> via]

\* None
NoCandidate == Cand(NoName, 0, "")

\* _process_tool_call_data that takes the last element of a list
process_tool_call_data_last(data) ==
    LET d == IF data.k # "array" THEN data
             ELSE IF data.elems = << >> THEN Fragment
             ELSE data.elems[Len(data.elems)]
    IN  IF d.k # "object" THEN NoCandidate
        ELSE IF d.shape = "call" THEN Cand(d.tool, d.arg, "json")
        ELSE IF d.shape = "tool_code" THEN Cand(d.tool, d.arg, "code")
        ELSE NoCandidate

\* _process_tool_call_data: a list stands for its first element; a mapping
\* with tool and arguments is returned as it is, one with tool_code gives
\* the call found in the code, anything else None
process_tool_call_data(data) ==
    LET d == IF data.k # "array" THEN data
             ELSE IF data.elems = << >> THEN Fragment
             ELSE data.elems[1]
    IN  IF d.k # "object" THEN NoCandidate
        ELSE IF d.shape = "call" THEN Cand(d.tool, d.arg, "json")
        ELSE IF d.shape = "tool_code" THEN Cand(d.tool, d.arg, "code")
        ELSE NoCandidate

\* the objects and scalars of a text in its order, arrays opened up
RECURSIVE Leaves(_)
Leaves(segs) ==
    IF segs = << >> THEN << >>
    ELSE (IF Head(segs).k = "array" THEN Head(segs).elems
          ELSE << Head(segs) >>) \o Leaves(Tail(segs))

\* "tool" or "tool_code" is a key of the object
HasToolKey(s) ==
    s.k = "object" /\ s.shape \in {"call", "toolonly", "tool_code"}

\* what the first of json_patterns finds: objects holding "tool" with at
\* most one level of nesting, wherever they are
ObjectMatches(segs) ==
    SelectSeq(Leaves(segs), LAMBDA s : HasToolKey(s) /\ ~s.deep)

\* an array holding "tool" somewhere
ToolArray(s) ==
    s.k = "array" /\ \E i \in 1..Len(s.elems) : HasToolKey(s.elems[i])

\* what the second of json_patterns finds
ArrayMatches(segs) == SelectSeq(segs, ToolArray)

\* fiddler_mcp__name(...) occurs in the piece
HasBareCall(s) ==
    \/ s.k = "bare" /\ s.shape = "closed"
    \/ s.k \in {"object", "scalar"} /\ s.shape = "mentions"
    \/ s.k = "object" /\ s.shape = "tool_code"

\* what plain_text_pattern finds
BareMatches(segs) == SelectSeq(Leaves(segs), HasBareCall)

\* the first match that _process_tool_call_data accepts
RECURSIVE FirstCand(_)
FirstCand(matches) ==
    IF matches = << >> THEN NoCandidate
    ELSE IF process_tool_call_data(Head(matches)) # NoCandidate
    THEN process_tool_call_data(Head(matches))
    ELSE FirstCand(Tail(matches))

\* the text after strip() and after "\n".join(lines[1:-1]) of a text that
\* starts with a fence: a fenced text of one line loses everything
Unfenced(text) == IF text.fence = "inline" THEN << >> ELSE text.segs

\* json.loads accepts the whole text
IsJson(segs) ==
    Len(segs) = 1 /\ segs[1].k \in {"object", "array", "scalar"}

\* parse_gemini_response: the candidate, or NoCandidate for None. A text
\* that json.loads accepts as a whole is decided by _process_tool_call_data
\* alone; only a text that is not JSON is scanned for embedded objects,
\* then embedded arrays, then the bare call syntax
parse_gemini_response(text) ==
    LET body == Unfenced(text)
        c1 == FirstCand(ObjectMatches(body))
        c2 == FirstCand(ArrayMatches(body))
        b == BareMatches(body)
    IN  IF IsJson(body) THEN process_tool_call_data(body[1])
        ELSE IF c1 # NoCandidate THEN c1
        ELSE IF c2 # NoCandidate THEN c2
        ELSE IF b # << >> THEN Cand(b[1].tool, b[1].arg, "bare")
        ELSE NoCandidate

\* _process_tool_call_data prints "Gemini returned multiple tool calls ...
\* Processing first call only (will chain the rest)" during the parse: for
\* a text that is an array, or when the array scan is reached and matches
MultipleCallsNote(text) ==
    LET body == Unfenced(text) IN
    IF IsJson(body) THEN body[1].k = "array"
    ELSE /\ FirstCand(ObjectMatches(body)) = NoCandidate
         /\ ArrayMatches(body) # << >>

\* a pattern of _extract_text_before_tool_call matches at the start of
\* the piece
MatchAtStart(s) ==
    \/ HasToolKey(s) /\ ~s.deep
    \/ ToolArray(s)
    \/ s.k = "bare"

\* or only inside it
MatchInside(s) ==
    /\ ~MatchAtStart(s)
    /\ \/ s.k \in {"object", "scalar"} /\ s.shape = "mentions"
       \/ s.k = "array" /\ \E i \in 1..Len(s.elems) :
                             s.elems[i].shape = "mentions"

\* strip() and the removal of a closing "Tool Call:" or "Next:"
Unlabelled(segs) ==
    IF segs = << >> \/ segs[Len(segs)].k # "prose" THEN segs
    ELSE IF segs[Len(segs)].shape = "labelonly"
    THEN SubSeq(segs, 1, Len(segs) - 1)
    ELSE [segs EXCEPT ![Len(segs)] = Prose("plain")]

\* _extract_text_before_tool_call that returns "" when nothing matches
extract_text_before_tool_call_or_nothing(text) ==
    LET hits == { i \in 1..Len(text.segs) :
                    MatchAtStart(text.segs[i]) \/ MatchInside(text.segs[i]) }
        first == CHOOSE i \in hits : \A j \in hits : i <= j
        before == SubSeq(text.segs, 1, first - 1)
        fence == IF text.fence = "none" THEN "none" ELSE "open"
    IN  IF hits = {} THEN Body(FALSE, "none", << >>)
        ELSE IF MatchInside(text.segs[first])
        THEN Body(FALSE, fence, Append(before, Fragment))
        ELSE Body(FALSE, fence, Unlabelled(before))

\* _extract_text_before_tool_call: what precedes the earliest match of
\* the patterns in the stripped text, fence included, or the stripped text
\* when nothing matches
extract_text_before_tool_call(text) ==
    LET hits == { i \in 1..Len(text.segs) :
                    MatchAtStart(text.segs[i]) \/ MatchInside(text.segs[i]) }
        first == CHOOSE i \in hits : \A j \in hits : i <= j
        before == SubSeq(text.segs, 1, first - 1)
        fence == IF text.fence = "none" THEN "none" ELSE "open"
    IN  IF hits = {} THEN Body(FALSE, text.fence, text.segs)
        ELSE IF MatchInside(text.segs[first])
        THEN Body(FALSE, fence, Append(before, Fragment))
        ELSE Body(FALSE, fence, Unlabelled(before))

\* a record of conversation_history
Rec(role, tool, text, result) ==
    [role |-> role, tool |-> tool, text |-> text, result |-> result]

\* what chat returned: kind is "none" (nothing yet), "answer" (an agent
\* text), "interrupt" (the [INTERRUPTED] notice) or "error"
Ret(kind, text) == [kind |-> kind, text |-> text]

VARIABLES
    pc,                   \* position of the main thread
    sigintMode,           \* "handler": main() installed signal_handler;
                          \* "default": chat runs under Python's default
    proc,                 \* the child: "none", "alive", "dead"
    logOpen,              \* mcp_stderr_file is an open handle
    closeExit,            \* how close() was left: "" (not called),
                          \* "returned" or "raised"
    request_id,           \* self.request_id
    inflight,             \* the request send_mcp_request is waiting on
    stdinQ,               \* requests written to the child, not yet handled
    stdoutQ,              \* reply lines of the child, not yet read
    lastResp,             \* ids of the last request that returned a reply
    timeouts,             \* requests that timed out so far
    notifSent,            \* notifications/initialized lines written
    handshake,            \* outcome of initialize_mcp
    server,               \* the child: "bridge" (5ire-bridge.py) or
                          \* "other" (another mcp_server_command)
    model,                \* self.model: "compliant" answers as the system
                          \* prompt asks, "any" with any text
    srvTools,             \* the tools the child registers
    available_tools,      \* self.available_tools
    max_followups,        \* self.max_followups
    conversation_history, \* self.conversation_history
    agentCalls,           \* generate_content calls of the session so far
    tool_call_count,      \* chat's tool_call_count
    followup_count,       \* chat's followup_count
    site,                 \* "first" or "loop": which call_tool call site
    cand,                 \* the name the agent asked for
    tool_name,            \* call_tool's tool_name after rewriting
    result,               \* call_tool's result so far
    body_data,            \* _auto_fetch_session_body's body_data
    lastGen,              \* the last answered generate_content call
    genCalls,             \* generate_content calls of this chat, issued
    ret,                  \* what the last chat returned
    cancelled,            \* where the operator's Ctrl+C hit the query
    auto_save_full_bodies, \* self.auto_save_full_bodies
    session_dumps,        \* the files written under session_dumps/
    stderr_thread,        \* the log_server_stderr thread and the child's
                          \* stderr pipe
    client                \* the bridge's FiddlerBridgeClient at work

vars ==
    << pc, sigintMode, proc, logOpen, closeExit, request_id, inflight, stdinQ,
       stdoutQ, lastResp, timeouts, notifSent, handshake, server, model, auto_save_full_bodies,
                    session_dumps, stderr_thread, client,
       srvTools,
       available_tools, max_followups, conversation_history, agentCalls,
       tool_call_count, followup_count, site, cand, tool_name, result,
       body_data, lastGen, genCalls, ret, cancelled >>

\* what the main thread and the child work on
mainVars ==
    << pc, sigintMode, proc, logOpen, closeExit, request_id, inflight, stdinQ,
       stdoutQ, lastResp, timeouts, notifSent, handshake, server, model,
       auto_save_full_bodies, session_dumps, srvTools,
       available_tools, max_followups, conversation_history, agentCalls,
       tool_call_count, followup_count, site, cand, tool_name, result,
       body_data, lastGen, genCalls, ret, cancelled >>

transportVars ==
    << request_id, inflight, stdinQ, stdoutQ, lastResp, timeouts >>

chatVars ==
    << tool_call_count, followup_count, site, cand, tool_name, result,
       body_data, lastGen, genCalls, agentCalls >>

\* one answered generate_content call: the call site ("initial", "retry",
\* "analysis", "followup"), the kind of what it yielded and the text
Gen(at, out) == [site |-> at, out |-> out.kind, text |-> out]

NoGen == [site |-> "", out |-> "", text |-> EmptyText]

NoCancel == [at |-> "", written |-> FALSE, id |-> 0]

\* the catalogs a tool server may answer tools/list with
Catalogs == { BridgeTools, {} }

\* the stderr thread: pc is "none" (not started), "readline", "check" (a
\* line is read, the log handle is about to be tested), "write" (the test
\* passed), "done" (readline returned "") or "failed" (an exception ended
\* the loop); pending counts the lines in the pipe, produced the lines the
\* child has written, logged the "Server:" lines appended to the log
Thread(tpc, pending, produced, logged) ==
    [pc |-> tpc, pending |-> pending, produced |-> produced,
     logged |-> logged]

NoThread == Thread("none", 0, 0, 0)

\* FiddlerBridgeClient.max_retries
DEFAULT_MAX_RETRIES == 3

\* one operation of the bridge's client.  op is "none", "session_body"
\* (get_session_body, which calls request_with_retry) or "sessions_clear";
\* raw and smart_extract are the parameters of the first, confirm and
\* clear_suspicious of the second; attempt is the attempt argument of the
\* request_with_retry frame that runs, http counts the HTTP requests sent,
\* waits lists the sleeps, errors the exceptions self.request raised;
\* outcome is "running", "returned" or "raised", with the result or the
\* exception in result
Client(op, raw, smart_extract, confirm, clear_suspicious, max_retries) ==
    [op |-> op, raw |-> raw, smart_extract |-> smart_extract,
     confirm |-> confirm, clear_suspicious |-> clear_suspicious,
     max_retries |-> max_retries, attempt |-> 0, http |-> 0,
     waits |-> << >>, errors |-> << >>, outcome |-> "running",
     result |-> ""]

\* no operation of the bridge's client is under way
NoClient ==
    [Client("none", FALSE, FALSE, FALSE, FALSE, DEFAULT_MAX_RETRIES)
       EXCEPT !.outcome = "returned"]

\* what self.request does: it returns the JSON mapping of the reply (with
\* success true or absent, or with success false), {} for an empty reply,
\* a JSON value that is no mapping, or raises one of the two bridge errors
HttpReplies == { "mapping", "mapping_success_false", "empty", "no_mapping" }

HttpErrors == { "BridgeConnectionError", "BridgeRequestError" }

\* the result clear_sessions makes of what self.request did
ClearResult(out) ==
    CASE out = "BridgeConnectionError" -> "cannot_connect"
      [] out = "BridgeRequestError" -> "clear_request_failed"
      [] out = "mapping_success_false" -> "clear_failed"
      [] out = "no_mapping" -> "unexpected_response"
      [] OTHER -> "cleared"

Init ==
    /\ pc = "start"
    /\ sigintMode \in {"handler", "default"}
    /\ proc = "none"
    /\ logOpen = FALSE
    /\ closeExit = ""
    /\ request_id = 0
    /\ inflight = Idle
    /\ stdinQ = << >>
    /\ stdoutQ = << >>
    /\ lastResp = [req |-> 0, resp |-> 0]
    /\ timeouts = 0
    /\ notifSent = 0
    /\ handshake = "none"
    /\ server = "bridge"
    /\ model = "compliant"
    /\ auto_save_full_bodies = FALSE
    /\ session_dumps = 0
    /\ stderr_thread = NoThread
    /\ client = NoClient
    /\ srvTools \in Catalogs
    /\ available_tools = {}
    /\ max_followups \in 1..MaxCeiling
    /\ conversation_history = << >>
    /\ agentCalls = 0
    /\ tool_call_count = 0
    /\ followup_count = 0
    /\ site = "first"
    /\ cand = NoName
    /\ tool_name = NoName
    /\ result = NoResult
    /\ body_data = NoResult
    /\ lastGen = NoGen
    /\ genCalls = 0
    /\ ret = Ret("none", EmptyText)
    /\ cancelled = NoCancel

(***************************************************************************)
(* Transport session.                                                      *)
(***************************************************************************)
\* send_mcp_request that takes a new id only when the request is written
send_mcp_request_bump_on_write(method, name, full, extract) ==
    /\ request_id' = IF proc = "alive" THEN request_id + 1 ELSE request_id
    /\ inflight' = [id |-> request_id', method |-> method, name |-> name,
                    written |-> (proc = "alive"), full |-> full,
                    extract |-> extract]
    /\ stdinQ' = IF proc = "alive"
                 THEN Append(stdinQ,
                             Msg(request_id + 1, method, name, full, extract))
                 ELSE stdinQ

\* send_mcp_request up to the point where it waits for the reply: the
\* counter is bumped first; a child that poll() reports dead gets no line
send_mcp_request(method, name, full, extract) ==
    /\ request_id' = request_id + 1
    /\ inflight' = [id |-> request_id + 1, method |-> method, name |-> name,
                    written |-> (proc = "alive"), full |-> full,
                    extract |-> extract]
    /\ stdinQ' = IF proc = "alive"
                 THEN Append(stdinQ,
                             Msg(request_id + 1, method, name, full, extract))
                 ELSE stdinQ

\* Responses where the 30 s without a line are reported as a closed stream
Responses_timeout_as_closed ==
    IF ~inflight.written
    THEN { Reply(0, "error", "terminated", {}, NoEnvelope) }
    ELSE IF stdoutQ # << >>
    THEN IF Head(stdoutQ).key = "garbage"
         THEN { Reply(0, "error", "invalid_json", {}, NoEnvelope) }
         ELSE { Head(stdoutQ) }
    ELSE { Reply(0, "error", "closed", {}, NoEnvelope) }

\* the dictionary send_mcp_request returns for the request in flight: the
\* next line of stdout whatever it answers, or an error dictionary when the
\* child was dead before the write, no line came within 30 s, the stream is
\* closed, or the line is not JSON
Responses ==
    IF ~inflight.written
    THEN { Reply(0, "error", "terminated", {}, NoEnvelope) }
    ELSE IF stdoutQ # << >>
    THEN IF Head(stdoutQ).key = "garbage"
         THEN { Reply(0, "error", "invalid_json", {}, NoEnvelope) }
         ELSE { Head(stdoutQ) }
    ELSE IF proc = "alive"
    THEN IF timeouts < MaxTimeouts
         THEN { Reply(0, "error", "timeout", {}, NoEnvelope) }
         ELSE {}
    ELSE { Reply(0, "error", "closed", {}, NoEnvelope) }

\* the rest of send_mcp_request: the line, if one was read, is consumed
Receive(resp) ==
    /\ resp \in Responses
    /\ stdoutQ' = IF inflight.written /\ stdoutQ # << >>
                  THEN Tail(stdoutQ) ELSE stdoutQ
    /\ lastResp' = IF resp.err = ""
                   THEN [req |-> inflight.id, resp |-> resp.id]
                   ELSE lastResp
    /\ timeouts' = IF resp.err = "timeout" THEN timeouts + 1 ELSE timeouts

\* send_mcp_notification: an error string when the child is dead,
\* otherwise one line without an id
send_mcp_notification ==
    IF proc = "alive"
    THEN notifSent' = notifSent + 1
    ELSE notifSent' = notifSent

\* the positions of the dicts in a content list
DictItems(content) == { i \in DOMAIN content : content[i].isdict }

\* the first dict of a content list that has one
FirstDictItem(content) ==
    content[CHOOSE i \in DictItems(content) :
                \A j \in DictItems(content) : i <= j]

\* what _parse_tool_response makes of a content item that is a dict
ParseItem(it, payload) ==
    IF it.type = "text" /\ it.text # "absent"
    THEN IF it.text = "object" THEN payload
         ELSE IF it.text = "array" THEN ListResult(FALSE)
         ELSE IF it.text = "empty_array" THEN ListResult(TRUE)
         ELSE TextResult(it.text = "error_message")
    ELSE ItemResult

\* _parse_tool_response
parse_tool_response(resp) ==
    IF resp.key # "result" THEN ErrorResult
    ELSE IF ~resp.payload.dict THEN WrappedResult
    ELSE IF DictItems(resp.payload.content) # {}
    THEN ParseItem(FirstDictItem(resp.payload.content), resp.payload.payload)
    ELSE IF resp.payload.flat THEN resp.payload.payload
    ELSE IF resp.payload.resp = "data_dict" THEN resp.payload.payload
    ELSE IF resp.payload.resp = "data_scalar" THEN DataResult
    ELSE IF resp.payload.resp = "nodata" THEN EnvelopeResult
    ELSE RawResult

\* use_smart_extract = is_javascript and size_bytes and size_bytes > 50000:
\* the Python value of the expression
use_smart_extract(b) ==
    IF ~b.js THEN "False"
    ELSE IF ~b.size.present THEN "None"
    ELSE IF b.size.n = 0 THEN "0"
    ELSE IF b.size.n > SMART_EXTRACT_THRESHOLD THEN "True"
    ELSE "False"

\* response["result"] of the replies to a tools/call request: the bridge
\* answers through FastMCP, another server with any envelope
ResultsFor(m) ==
    IF server = "bridge"
    THEN { TextContent(p) : p \in PayloadsFor(m.name) } \cup
         { ToolErrorContent }
    ELSE UNION { EnvelopesOf(p) : p \in OtherPayloadsFor(m) } \cup
         OddEnvelopes

\* the lines the child may answer a request with
RepliesFor(m) ==
    { Reply(m.id, "garbage", "", {}, NoEnvelope),
      Reply(m.id, "error", "", {}, NoEnvelope) } \cup
    IF m.method = "tools/list"
    THEN { Reply(m.id, "result", "", srvTools, NoEnvelope) }
    ELSE IF m.method = "tools/call"
    THEN { Reply(m.id, "result", "", {}, e) : e \in ResultsFor(m) }
    ELSE { Reply(m.id, "result", "", {}, NoEnvelope) }

\* the child reads the next request of its stdin and answers it
ServerHandle ==
    /\ proc = "alive"
    /\ pc # "exited"
    /\ stdinQ # << >>
    /\ stdinQ' = Tail(stdinQ)
    /\ \E l \in RepliesFor(Head(stdinQ)) : stdoutQ' = Append(stdoutQ, l)
    /\ UNCHANGED << pc, sigintMode, proc, logOpen, closeExit, request_id, inflight,
                    lastResp, timeouts, notifSent, handshake, srvTools, server, model, auto_save_full_bodies,
                    session_dumps, stderr_thread, client, available_tools,
                    max_followups, conversation_history, chatVars,
                    ret, cancelled >>

\* the child dies on its own
ServerDie ==
    /\ proc = "alive"
    /\ pc # "exited"
    /\ proc' = "dead"
    /\ UNCHANGED << pc, sigintMode, logOpen, closeExit, transportVars, notifSent,
                    handshake, srvTools, server, model, auto_save_full_bodies,
                    session_dumps, stderr_thread, client, available_tools, max_followups,
                    conversation_history, chatVars, ret, cancelled >>

\* close(): stdin.close(), terminate(), wait(timeout=5), then the log handle
\* is closed; when the wait expires the exception leaves close() early
close(died) ==
    IF proc = "none"
    THEN /\ proc' = proc
         /\ logOpen' = FALSE
         /\ closeExit' = "returned"
    ELSE IF died \/ proc = "dead"
    THEN /\ proc' = "dead"
         /\ logOpen' = FALSE
         /\ closeExit' = "returned"
    ELSE /\ proc' = proc
         /\ logOpen' = logOpen
         /\ closeExit' = "raised"

(***************************************************************************)
(* main(): start_mcp_server, initialize_mcp, list_tools.                   *)
(***************************************************************************)
\* start_mcp_server: open the log, spawn the child, start the stderr thread
\* and call initialize_mcp, which sends the initialize request
Start ==
    /\ pc = "start"
    /\ proc' = "alive"
    /\ logOpen' = TRUE
    /\ request_id' = request_id + 1
    /\ closeExit' = closeExit
    /\ inflight' = [id |-> request_id + 1, method |-> "initialize",
                    name |-> NoName, written |-> TRUE, full |-> FALSE,
                    extract |-> "False"]
    /\ stdinQ' = Append(stdinQ,
                        Msg(request_id + 1, "initialize", NoName, FALSE,
                            "False"))
    /\ pc' = "init_wait"
    /\ stderr_thread' = Thread("readline", 0, 0, 0)
    /\ UNCHANGED << sigintMode, stdoutQ, lastResp, timeouts, notifSent,
                    handshake, srvTools, server, model, auto_save_full_bodies,
                    session_dumps, client, available_tools, max_followups,
                    conversation_history, chatVars, ret, cancelled >>

\* start_mcp_server when the log file or the child cannot be created:
\* cleanup and sys.exit(1)
StartFail ==
    /\ pc = "start"
    /\ pc' = "exited"
    /\ UNCHANGED << sigintMode, proc, logOpen, closeExit, transportVars, notifSent,
                    handshake, srvTools, server, model, auto_save_full_bodies,
                    session_dumps, stderr_thread, client, available_tools, max_followups,
                    conversation_history, chatVars, ret, cancelled >>

\* initialize_mcp after the reply: with a result the notification is sent,
\* otherwise the failure is printed; either way it returns normally and
\* main() goes on to list_tools
InitializeReply ==
    /\ pc = "init_wait"
    /\ \E resp \in Responses :
         /\ Receive(resp)
         /\ IF resp.key = "result"
            THEN /\ send_mcp_notification
                 /\ handshake' = IF proc = "alive" THEN "ok" ELSE "failed"
            ELSE /\ notifSent' = notifSent
                 /\ handshake' = "failed"
    /\ inflight' = Idle
    /\ pc' = "list_send"
    /\ UNCHANGED << sigintMode, proc, logOpen, closeExit, request_id, stdinQ, srvTools, server, model, auto_save_full_bodies,
                    session_dumps, stderr_thread, client,
                    available_tools, max_followups, conversation_history,
                    chatVars, ret, cancelled >>

\* list_tools: the tools/list request
ListTools ==
    /\ pc = "list_send"
    /\ send_mcp_request("tools/list", NoName, FALSE, "False")
    /\ pc' = "list_wait"
    /\ UNCHANGED << sigintMode, proc, logOpen, closeExit, stdoutQ, lastResp, timeouts,
                    notifSent, handshake, srvTools, server, model, auto_save_full_bodies,
                    session_dumps, stderr_thread, client, available_tools,
                    max_followups, conversation_history, chatVars,
                    ret, cancelled >>

\* ListToolsReply without main()'s "if not tools: sys.exit(1)"
ListToolsReply_proceeds ==
    /\ pc = "list_wait"
    /\ \E resp \in Responses :
         /\ Receive(resp)
         /\ available_tools' = IF resp.key = "error" THEN available_tools
                                ELSE resp.tools
    /\ pc' = "prompt"
    /\ inflight' = Idle
    /\ UNCHANGED << sigintMode, proc, logOpen, closeExit, request_id, stdinQ, notifSent,
                    handshake, srvTools, server, model, auto_save_full_bodies,
                    session_dumps, stderr_thread, client, max_followups, conversation_history,
                    chatVars, ret, cancelled >>

\* list_tools after the reply, and main()'s check of the catalog: an error
\* reply gives [], and an empty catalog ends the program with sys.exit(1)
ListToolsReply ==
    /\ pc = "list_wait"
    /\ \E resp \in Responses :
         /\ Receive(resp)
         /\ IF resp.key = "error"
            THEN /\ available_tools' = available_tools
                 /\ pc' = "exited"
            ELSE /\ available_tools' = resp.tools
                 /\ pc' = IF resp.tools = {} THEN "exited" ELSE "prompt"
    /\ inflight' = Idle
    /\ UNCHANGED << sigintMode, proc, logOpen, closeExit, request_id, stdinQ, notifSent,
                    handshake, srvTools, server, model, auto_save_full_bodies,
                    session_dumps, stderr_thread, client, max_followups, conversation_history,
                    chatVars, ret, cancelled >>

(***************************************************************************)
(* chat(): the orchestration loop.                                         *)
(***************************************************************************)
\* what generate_content may do: yield a text or raise
AgentOutcomes ==
    (CASE model = "compliant" -> AgentTexts
       [] model = "chatty" -> ChatTexts
       [] model = "terse" -> TerseTexts
       [] OTHER -> ExtractTexts)
    \cup { AgentText("raise", NoName, FALSE) }


\* Returning that writes rec over the last record instead of appending it
Returning_overwrite(rec, r, fc) ==
    /\ conversation_history' =
         [conversation_history EXCEPT ![Len(conversation_history)] = rec]
    /\ ret' = r
    /\ pc' = "prompt"
    /\ followup_count' = fc
    /\ UNCHANGED << tool_call_count, site, cand, tool_name, result, body_data, genCalls,
                    agentCalls >>

\* chat returns r after appending rec to the history
Returning(rec, r, fc) ==
    /\ conversation_history' = Append(conversation_history, rec)
    /\ ret' = r
    /\ pc' = "prompt"
    /\ followup_count' = fc
    /\ UNCHANGED << tool_call_count, site, cand, tool_name, result, body_data, genCalls,
                    agentCalls >>

\* a failure path that files its record under a role of its own
Failing_under_other_role ==
    Returning(Rec("exception", NoName, EmptyText, NoResult),
              Ret("error", EmptyText), followup_count)

\* except Exception: a record with role "error" and the message returned
Failing ==
    Returning(Rec("error", NoName, EmptyText, NoResult),
              Ret("error", EmptyText), followup_count)

\* chat goes on to call_tool(name, ...) from call site s; in the loop the
\* text before the call, if any, is appended first
ToCallTool(t, s, fc) ==
    /\ cand' = parse_gemini_response(t).tool
    /\ site' = s
    /\ followup_count' = fc
    /\ pc' = "call_tool"
    /\ conversation_history' =
         IF s = "loop" /\ extract_text_before_tool_call(t)
                              # Body(FALSE, "none", << >>)
         THEN Append(conversation_history,
                     Rec("assistant", NoName, PlainText, NoResult))
         ELSE conversation_history
    /\ UNCHANGED << ret, tool_call_count, tool_name, result, body_data, genCalls,
                    agentCalls >>

\* AfterFirstText that asks the agent again when the text holds no call
AfterFirstText_asks_again(t) ==
    IF parse_gemini_response(t) # NoCandidate
    THEN ToCallTool(t, "first", followup_count)
    ELSE /\ pc' = "gen_retry"
         /\ genCalls' = genCalls + 1
         /\ agentCalls' = agentCalls + 1
         /\ UNCHANGED << conversation_history, ret, followup_count,
                         tool_call_count, site, cand, tool_name, result,
                         body_data >>

\* the text of the first turn: a tool call starts the chain, anything else
\* is the direct answer
AfterFirstText(t) ==
    IF parse_gemini_response(t) # NoCandidate
    THEN ToCallTool(t, "first", followup_count)
    ELSE Returning(Rec("assistant", NoName, t, NoResult), Ret("answer", t),
                   followup_count)

\* the head of "while followup_count < max_followups" with current_text t
LoopHead(t, fc) ==
    IF fc < max_followups /\ parse_gemini_response(t) # NoCandidate
    THEN ToCallTool(t, "loop", fc)
    ELSE Returning(Rec("assistant", NoName, t, NoResult), Ret("answer", t), fc)

\* a chat that counts the call and asks for the analysis but keeps the
\* result out of the turn log
FinishCall_unrecorded(res) ==
    /\ tool_call_count' = tool_call_count + 1
    /\ conversation_history' = conversation_history
    /\ genCalls' = genCalls + 1
    /\ agentCalls' = agentCalls + 1
    /\ pc' = IF site = "first" THEN "gen_analysis" ELSE "gen_followup"
    /\ result' = NoResult
    /\ body_data' = NoResult
    /\ UNCHANGED << followup_count, site, cand, lastGen, ret >>

\* call_tool has its result: chat counts the call, appends the tool record
\* and asks the agent to analyse the result
FinishCall(res) ==
    /\ tool_call_count' = tool_call_count + 1
    /\ conversation_history' =
         Append(conversation_history, Rec("tool", cand, EmptyText, res))
    /\ genCalls' = genCalls + 1
    /\ agentCalls' = agentCalls + 1
    /\ pc' = IF site = "first" THEN "gen_analysis" ELSE "gen_followup"
    /\ result' = NoResult
    /\ body_data' = NoResult
    /\ UNCHANGED << followup_count, site, cand, lastGen, ret >>

\* the user types a query: chat appends it and asks the agent
Query ==
    /\ pc = "prompt"
    /\ agentCalls < MaxAgentCalls
    /\ agentCalls' = agentCalls + 1
    /\ conversation_history' =
         Append(conversation_history,
                Rec("user", NoName, PlainText, NoResult))
    /\ tool_call_count' = 0
    /\ followup_count' = 0
    /\ site' = "first"
    /\ cand' = NoName
    /\ tool_name' = NoName
    /\ result' = NoResult
    /\ body_data' = NoResult
    /\ lastGen' = NoGen
    /\ genCalls' = 1
    /\ ret' = Ret("none", EmptyText)
    /\ cancelled' = NoCancel
    /\ pc' = "gen_initial"
    /\ UNCHANGED << sigintMode, proc, logOpen, closeExit, transportVars, notifSent,
                    handshake, srvTools, server, model, auto_save_full_bodies,
                    session_dumps, stderr_thread, client, available_tools, max_followups >>

\* the initial generate_content call is answered; no text means one retry
\* with temperature 0
GenInitial ==
    /\ pc = "gen_initial"
    /\ \E out \in AgentOutcomes :
         /\ lastGen' = Gen("initial", out)
         /\ IF out.kind = "raise"
            THEN Failing
            ELSE IF out.kind = "empty"
            THEN /\ genCalls' = genCalls + 1
                 /\ agentCalls' = agentCalls + 1
                 /\ pc' = "gen_retry"
                 /\ UNCHANGED << conversation_history, ret, tool_call_count,
                                 followup_count, site, cand, tool_name,
                                 result, body_data >>
            ELSE AfterFirstText(out)
    /\ UNCHANGED << sigintMode, proc, logOpen, closeExit, transportVars, notifSent,
                    handshake, srvTools, server, model, auto_save_full_bodies,
                    session_dumps, stderr_thread, client, available_tools, max_followups,
                    cancelled >>

\* the retry is answered; its text is used whatever it is
GenRetry ==
    /\ pc = "gen_retry"
    /\ \E out \in AgentOutcomes :
         /\ lastGen' = Gen("retry", out)
         /\ IF out.kind = "raise" THEN Failing ELSE AfterFirstText(out)
    /\ UNCHANGED << sigintMode, proc, logOpen, closeExit, transportVars, notifSent,
                    handshake, srvTools, server, model, auto_save_full_bodies,
                    session_dumps, stderr_thread, client, available_tools, max_followups,
                    cancelled >>

\* call_tool: rewrite the name, validate it against the catalog, and either
\* return the unknown-tool failure or send the tools/call request
CallTool ==
    /\ pc = "call_tool"
    /\ tool_name' = ResolveName(cand)
    /\ IF ResolveName(cand) \notin available_tools
       THEN /\ FinishCall(UnknownToolResult(available_tools))
            /\ UNCHANGED transportVars
       ELSE /\ send_mcp_request("tools/call", ResolveName(cand), FALSE,
                                "False")
            /\ pc' = "tool_wait"
            /\ UNCHANGED << stdoutQ, lastResp, timeouts,
                            conversation_history, tool_call_count, followup_count, site, cand,
                            result, body_data, lastGen, genCalls, agentCalls, ret >>
    /\ UNCHANGED << sigintMode, proc, logOpen, closeExit, notifSent, handshake, srvTools, server, model, auto_save_full_bodies,
                    session_dumps, stderr_thread, client,
                    available_tools, max_followups, cancelled >>

\* chat's "except Exception" when call_tool raises while a request has
\* been answered
CallToolRaises ==
    /\ Failing
    /\ inflight' = Idle
    /\ UNCHANGED << request_id, stdinQ, lastGen >>

\* a search that goes on to the body of any result
NeedsBody_of_any_tool(name, r) ==
    /\ r.success = "true"
    /\ r.sessions > 0
    /\ ~r.noid

\* "tool_name == fiddler_mcp__sessions_search and result.get("success")",
\* and _auto_fetch_session_body has a first match with an id to ask for
NeedsBody(name, r) ==
    /\ name = SEARCH_TOOL
    /\ r.success = "true"
    /\ r.sessions > 0
    /\ ~r.noid

\* call_tool after the reply: a successful search whose first match has an
\* id goes on to fetch the body of that match, anything else is returned;
\* result.get raises when the search result is a list
ToolReply ==
    /\ pc = "tool_wait"
    /\ \E resp \in Responses :
         /\ Receive(resp)
         /\ LET r == parse_tool_response(resp) IN
            IF tool_name = SEARCH_TOOL /\ r.type # "dict"
            THEN CallToolRaises
            ELSE IF NeedsBody(tool_name, r)
            THEN /\ send_mcp_request("tools/call", BODY_TOOL, FALSE, "False")
                 /\ result' = r
                 /\ pc' = "fetch_wait"
                 /\ UNCHANGED << conversation_history, tool_call_count,
                                 followup_count, site, cand, body_data,
                                 lastGen, genCalls, agentCalls, ret >>
            ELSE /\ FinishCall(r)
                 /\ inflight' = Idle
                 /\ UNCHANGED << request_id, stdinQ >>
    /\ UNCHANGED << sigintMode, proc, logOpen, closeExit, notifSent,
                    handshake, srvTools, server, model, auto_save_full_bodies,
                    session_dumps, stderr_thread, client, available_tools,
                    max_followups, tool_name, cancelled >>

\* _save_body_to_file: no path when auto_save_full_bodies is off, else the
\* path of the file written, or no path when writing it raised
save_body_to_file == IF auto_save_full_bodies THEN BOOLEAN ELSE {FALSE}

\* _auto_fetch_session_body after the body reply, and what call_tool does
\* with what it returns: a list is returned as it is (call_tool drops an
\* empty one and raises on follow_up.get for any other), success false
\* attaches a note, a truncated body is fetched again in full, anything
\* else is merged
FetchReply ==
    /\ pc = "fetch_wait"
    /\ \E resp \in Responses :
         /\ Receive(resp)
         /\ LET b == parse_tool_response(resp) IN
            IF b.type = "list"
            THEN /\ CallToolRaises
                 /\ session_dumps' = session_dumps
            ELSE IF b.type = "list0"
            THEN /\ FinishCall(result)
                 /\ inflight' = Idle
                 /\ UNCHANGED << request_id, stdinQ, session_dumps >>
            ELSE IF b.success # "false" /\ b.truncated
            THEN /\ send_mcp_request("tools/call", BODY_TOOL, TRUE,
                                     use_smart_extract(b))
                 /\ body_data' = b
                 /\ pc' = "refetch_wait"
                 /\ UNCHANGED << conversation_history, tool_call_count,
                                 followup_count, site, cand, result, lastGen,
                                 genCalls, agentCalls, ret, session_dumps >>
            ELSE IF b.success = "false"
            THEN /\ FinishCall([result EXCEPT !.follow = "failed_note",
                                              !.fu = [Merged(b) EXCEPT
                                        !.note = "lookup_failed"]])
                 /\ inflight' = Idle
                 /\ UNCHANGED << request_id, stdinQ, session_dumps >>
            ELSE \E saved \in save_body_to_file, rsaved \in save_body_to_file :
                   LET f == Annotated(b, TRUE, result.dup, saved, rsaved) IN
                   IF FormatRaises(b, b.size, saved)
                   THEN /\ CallToolRaises
                        /\ session_dumps' = session_dumps + 1
                   ELSE /\ FinishCall([result EXCEPT
                               !.follow = IF b.error THEN "error_body"
                                          ELSE "body",
                               !.fu = f])
                        /\ session_dumps' = session_dumps + (IF f.path THEN 1 ELSE 0)
                                            + (IF f.rpath THEN 1 ELSE 0)
                        /\ inflight' = Idle
                        /\ UNCHANGED << request_id, stdinQ >>
    /\ UNCHANGED << sigintMode, proc, logOpen, closeExit, notifSent,
                    handshake, srvTools, server, model, auto_save_full_bodies,
                    stderr_thread, client, available_tools,
                    max_followups, tool_name, cancelled >>

\* _auto_fetch_session_body after the full-payload reply: a dict with
\* success replaces the preview, formatted as smart extraction when it has
\* one; anything else leaves the preview with a note
RefetchReply ==
    /\ pc = "refetch_wait"
    /\ \E resp \in Responses :
         /\ Receive(resp)
         /\ LET raw_data == parse_tool_response(resp) IN
            IF raw_data.type = "dict" /\ raw_data.success = "true"
            THEN \E saved \in save_body_to_file,
                    rsaved \in save_body_to_file :
                   LET f == Annotated(raw_data, FALSE, result.dup, saved,
                                      rsaved)
                       size_bytes == IF raw_data.size.present
                                     THEN raw_data.size ELSE body_data.size
                   IN
                   IF FormatRaises(raw_data, size_bytes, saved)
                   THEN /\ Failing
                        /\ lastGen' = lastGen
                        /\ session_dumps' = session_dumps + 1
                   ELSE /\ FinishCall([result EXCEPT
                               !.follow = IF raw_data.smart THEN "extracted"
                                          ELSE "full_body",
                               !.fu = f])
                        /\ session_dumps' = session_dumps + (IF f.path THEN 1 ELSE 0)
                                            + (IF f.rpath THEN 1 ELSE 0)
            ELSE /\ FinishCall([result EXCEPT
                        !.follow = "refetch_failed",
                        !.fu = FullFetchFailed(body_data, result.dup)])
                 /\ session_dumps' = session_dumps
    /\ inflight' = Idle
    /\ UNCHANGED << sigintMode, proc, logOpen, closeExit, request_id, stdinQ,
                    notifSent, handshake, srvTools, server, model, auto_save_full_bodies,
                    stderr_thread, client, available_tools,
                    max_followups, tool_name, cancelled >>

\* the analysis call after the first tool is answered: no text is replaced
\* by the blocked-analysis message, and the follow-up loop starts
GenAnalysis ==
    /\ pc = "gen_analysis"
    /\ \E out \in AgentOutcomes :
         /\ lastGen' = Gen("analysis", out)
         /\ IF out.kind = "raise"
            THEN Failing
            ELSE LoopHead(IF out.kind = "empty" THEN BlockedMessage ELSE out, 0)
    /\ UNCHANGED << sigintMode, proc, logOpen, closeExit, transportVars, notifSent,
                    handshake, srvTools, server, model, auto_save_full_bodies,
                    session_dumps, stderr_thread, client, available_tools, max_followups,
                    cancelled >>

\* a follow-up call is answered: no text ends chat with the blocked
\* follow-up message, any other text counts one follow-up and is looked at
\* by the loop head
GenFollowup ==
    /\ pc = "gen_followup"
    /\ \E out \in AgentOutcomes :
         /\ lastGen' = Gen("followup", out)
         /\ IF out.kind = "raise"
            THEN Failing
            ELSE IF out.kind = "empty"
            THEN Returning(Rec("assistant", NoName, BlockedMessage, NoResult),
                           Ret("answer", BlockedMessage), followup_count)
            ELSE LoopHead(out, followup_count + 1)
    /\ UNCHANGED << sigintMode, proc, logOpen, closeExit, transportVars, notifSent,
                    handshake, srvTools, server, model, auto_save_full_bodies,
                    session_dumps, stderr_thread, client, available_tools, max_followups,
                    cancelled >>

(***************************************************************************)
(* interactive_mode() and the operator.                                    *)
(***************************************************************************)
ChatPcs ==
    { "gen_initial", "gen_retry", "call_tool", "tool_wait", "fetch_wait",
      "refetch_wait", "gen_analysis", "gen_followup" }

\* /clear
Clear ==
    /\ pc = "prompt"
    /\ conversation_history # << >>
    /\ conversation_history' = << >>
    /\ UNCHANGED << pc, sigintMode, proc, logOpen, closeExit, transportVars, notifSent,
                    handshake, srvTools, server, model, auto_save_full_bodies,
                    session_dumps, stderr_thread, client, available_tools, max_followups,
                    chatVars, ret, cancelled >>

\* /quit: the loop breaks and main() closes the client
Quit ==
    /\ pc = "prompt"
    /\ \E died \in BOOLEAN : close(died)
    /\ pc' = "exited"
    /\ UNCHANGED << sigintMode, transportVars, notifSent, handshake, srvTools, server, model, auto_save_full_bodies,
                    session_dumps, stderr_thread, client,
                    available_tools, max_followups, conversation_history,
                    chatVars, ret, cancelled >>

\* Ctrl+C with main()'s signal_handler installed: close() and sys.exit(0),
\* wherever the main thread is
SigintHandler ==
    /\ sigintMode = "handler"
    /\ pc # "exited"
    /\ \E died \in BOOLEAN : close(died)
    /\ cancelled' = IF pc \in ChatPcs
                    THEN [at |-> pc, written |-> inflight.written,
                          id |-> inflight.id]
                    ELSE cancelled
    /\ pc' = "exited"
    /\ UNCHANGED << sigintMode, transportVars, notifSent, handshake, srvTools, server, model, auto_save_full_bodies,
                    session_dumps, stderr_thread, client,
                    available_tools, max_followups, conversation_history,
                    chatVars, ret >>

\* Ctrl+C under Python's default handler: KeyboardInterrupt is raised where
\* chat is, and chat's handler appends the system note and returns the notice
SigintDefault ==
    /\ sigintMode = "default"
    /\ pc \in ChatPcs
    /\ cancelled' = [at |-> pc, written |-> inflight.written,
                     id |-> inflight.id]
    /\ conversation_history' =
         Append(conversation_history,
                Rec("system", NoName, EmptyText, NoResult))
    /\ ret' = Ret("interrupt", EmptyText)
    /\ inflight' = Idle
    /\ pc' = "prompt"
    /\ UNCHANGED << sigintMode, proc, logOpen, closeExit, request_id, stdinQ, stdoutQ,
                    lastResp, timeouts, notifSent, handshake, srvTools, server, model, auto_save_full_bodies,
                    session_dumps, stderr_thread, client,
                    available_tools, max_followups, chatVars >>

Next ==
    \/ Start
    \/ StartFail
    \/ InitializeReply
    \/ ListTools
    \/ ListToolsReply
    \/ Query
    \/ GenInitial
    \/ GenRetry
    \/ CallTool
    \/ ToolReply
    \/ FetchReply
    \/ RefetchReply
    \/ GenAnalysis
    \/ GenFollowup
    \/ Clear
    \/ Quit
    \/ SigintHandler
    \/ SigintDefault
    \/ ServerHandle
    \/ ServerDie

Spec == Init /\ [][Next]_vars

\* the session under the scheduling the code guarantees: the main thread
\* goes on whenever it can, and send_mcp_request returns after 30 s at the
\* latest (select with a timeout, lines 312-316), so every step of main()
\* and every wait for a reply is taken eventually; the child answers what
\* it has read unless the wait is cut short by the timeout. The calls of
\* generate_content (lines 1515, 1539, 1625, 1753) are given no timeout and
\* self.gemini_timeout (line 85) is read nowhere, so nothing makes an agent
\* call return: the agent steps are left without a fairness condition
Fairness ==
    /\ WF_vars(Start)
    /\ WF_vars(InitializeReply)
    /\ WF_vars(ListTools)
    /\ WF_vars(ListToolsReply)
    /\ WF_vars(CallTool)
    /\ WF_vars(ToolReply)
    /\ WF_vars(FetchReply)
    /\ WF_vars(RefetchReply)
    /\ WF_vars(ServerHandle)

SpecLive == Spec /\ Fairness

(***************************************************************************)
(* Name resolution on its own: call_tool entered with any candidate name   *)
(* and any catalog, in a session that is otherwise ready.                  *)
(***************************************************************************)
\* every key of the two alias tables, as the name the agent wrote
AliasNames ==
    { U(k) : k \in DOMAIN NON_PREFIXED_ALIASES } \cup
    { P(k) : k \in DOMAIN TOOL_ALIASES }

\* the canonical name the table holding n maps it to
AliasTarget(n) ==
    IF n.pre THEN P(TOOL_ALIASES[n.parts[1]])
    ELSE P(NON_PREFIXED_ALIASES[n.parts[1]])

\* candidate names: the aliases, the bridge's own names, dotted forms and
\* names nobody knows
ResolveNames ==
    AliasNames \cup BridgeTools \cup
    { D("fiddler_mcp", "live_sessions"), D("fiddler_mcp", "get_body"),
      D("files", "read"), D3("a", "b", "c"), U("no_such_tool"),
      P("no_such_tool") }

\* catalogs: the bridge's, two that lack tools, and three that register a
\* name the resolver rewrites
ResolveCatalogs ==
    { BridgeTools,
      BridgeTools \ { P("live_sessions") },
      { P("session_body") },
      BridgeTools \cup { U("live_sessions") },
      { P("search"), P("live_stats") },
      BridgeTools \cup { D("files", "read") } }

ResolveInit ==
    /\ pc = "call_tool"
    /\ sigintMode \in {"handler", "default"}
    /\ proc = "alive"
    /\ logOpen = TRUE
    /\ closeExit = ""
    /\ request_id = 2
    /\ inflight = Idle
    /\ stdinQ = << >>
    /\ stdoutQ = << >>
    /\ lastResp = [req |-> 2, resp |-> 2]
    /\ timeouts = 0
    /\ notifSent = 1
    /\ handshake = "ok"
    /\ server = "other"
    /\ model = "compliant"
    /\ auto_save_full_bodies = FALSE
    /\ session_dumps = 0
    /\ stderr_thread = NoThread
    /\ client = NoClient
    /\ srvTools \in ResolveCatalogs
    /\ available_tools = srvTools
    /\ max_followups \in 1..MaxCeiling
    /\ conversation_history = << Rec("user", NoName, PlainText, NoResult) >>
    /\ agentCalls = 1
    /\ tool_call_count = 0
    /\ followup_count = 0
    /\ site = "first"
    /\ cand \in ResolveNames
    /\ tool_name = NoName
    /\ result = NoResult
    /\ body_data = NoResult
    /\ lastGen = Gen("initial", AgentText("call", cand, FALSE))
    /\ genCalls = 1
    /\ ret = Ret("none", EmptyText)
    /\ cancelled = NoCancel

ResolveNext == CallTool

SpecResolve == ResolveInit /\ [][ResolveNext]_vars

(***************************************************************************)
(* One tool invocation on its own: call_tool has written its tools/call    *)
(* request to a tool server that may answer with any envelope.             *)
(***************************************************************************)
\* the resolved tools: the search tool and one that is not
InvokeTools == { SEARCH_TOOL, P("live_sessions") }

InvokeInit ==
    /\ pc = "tool_wait"
    /\ sigintMode \in {"handler", "default"}
    /\ proc = "alive"
    /\ logOpen = TRUE
    /\ closeExit = ""
    /\ request_id = 3
    /\ tool_name \in InvokeTools
    /\ cand = tool_name
    /\ inflight = [id |-> 3, method |-> "tools/call", name |-> tool_name,
                   written |-> TRUE, full |-> FALSE, extract |-> "False"]
    /\ stdinQ = << Msg(3, "tools/call", tool_name, FALSE, "False") >>
    /\ stdoutQ = << >>
    /\ lastResp = [req |-> 2, resp |-> 2]
    /\ timeouts = 0
    /\ notifSent = 1
    /\ handshake = "ok"
    /\ server = "other"
    /\ model = "compliant"
    /\ auto_save_full_bodies \in BOOLEAN
    /\ session_dumps = 0
    /\ stderr_thread = NoThread
    /\ client = NoClient
    /\ srvTools = BridgeTools
    /\ available_tools = srvTools
    /\ max_followups \in 1..MaxCeiling
    /\ conversation_history = << Rec("user", NoName, PlainText, NoResult) >>
    /\ agentCalls = 1
    /\ tool_call_count = 0
    /\ followup_count = 0
    /\ site = "first"
    /\ result = NoResult
    /\ body_data = NoResult
    /\ lastGen = Gen("initial", AgentText("call", cand, FALSE))
    /\ genCalls = 1
    /\ ret = Ret("none", EmptyText)
    /\ cancelled = NoCancel

InvokeNext ==
    \/ ToolReply
    \/ FetchReply
    \/ RefetchReply
    \/ ServerHandle
    \/ ServerDie

SpecInvoke == InvokeInit /\ [][InvokeNext]_vars

(***************************************************************************)
(* The extractor on its own: a query has just been typed on an established *)
(* session and a model that may answer with any text is asked; the query   *)
(* is followed up to the result of its second tool.                        *)
(***************************************************************************)
ExtractInit ==
    /\ pc = "gen_initial"
    /\ sigintMode = "handler"
    /\ proc = "alive"
    /\ logOpen = TRUE
    /\ closeExit = ""
    /\ request_id = 2
    /\ inflight = Idle
    /\ stdinQ = << >>
    /\ stdoutQ = << >>
    /\ lastResp = [req |-> 2, resp |-> 2]
    /\ timeouts = 0
    /\ notifSent = 1
    /\ handshake = "ok"
    /\ server = "bridge"
    /\ model = "any"
    /\ auto_save_full_bodies = FALSE
    /\ session_dumps = 0
    /\ stderr_thread = NoThread
    /\ client = NoClient
    /\ srvTools = BridgeTools
    /\ available_tools = srvTools
    /\ max_followups \in 1..MaxCeiling
    /\ conversation_history = << Rec("user", NoName, PlainText, NoResult) >>
    /\ agentCalls = 1
    /\ tool_call_count = 0
    /\ followup_count = 0
    /\ site = "first"
    /\ cand = NoName
    /\ tool_name = NoName
    /\ result = NoResult
    /\ body_data = NoResult
    /\ lastGen = NoGen
    /\ genCalls = 1
    /\ ret = Ret("none", EmptyText)
    /\ cancelled = NoCancel

ExtractNext ==
    \/ GenInitial
    \/ GenRetry
    \/ CallTool
    \/ ToolReply
    \/ ServerHandle
    \/ GenAnalysis

SpecExtract == ExtractInit /\ [][ExtractNext]_vars

(***************************************************************************)
(* The bridge: FiddlerBridgeClient.                                        *)
(***************************************************************************)
\* request_with_retry that retries while attempt <= max_retries
request_with_retry_once_more ==
    /\ client.op = "session_body"
    /\ client.outcome = "running"
    /\ \E out \in HttpReplies \cup HttpErrors :
         client' =
           IF out \in HttpReplies
           THEN [client EXCEPT !.http = @ + 1, !.outcome = "returned",
                               !.result = out]
           ELSE IF client.attempt <= client.max_retries
           THEN [client EXCEPT !.http = @ + 1,
                               !.errors = Append(@, out),
                               !.waits = Append(@, 2 ^ client.attempt),
                               !.attempt = @ + 1]
           ELSE [client EXCEPT !.http = @ + 1,
                               !.errors = Append(@, out),
                               !.outcome = "raised", !.result = out]
    /\ UNCHANGED << mainVars, stderr_thread >>

\* one frame of request_with_retry: self.request is called; its reply is
\* returned; on a bridge error the frame sleeps 2 ** attempt seconds and
\* calls itself with attempt + 1 while attempt < max_retries, and raises
\* the error otherwise
request_with_retry ==
    /\ client.op = "session_body"
    /\ client.outcome = "running"
    /\ \E out \in HttpReplies \cup HttpErrors :
         client' =
           IF out \in HttpReplies
           THEN [client EXCEPT !.http = @ + 1, !.outcome = "returned",
                               !.result = out]
           ELSE IF client.attempt < client.max_retries
           THEN [client EXCEPT !.http = @ + 1,
                               !.errors = Append(@, out),
                               !.waits = Append(@, 2 ^ client.attempt),
                               !.attempt = @ + 1]
           ELSE [client EXCEPT !.http = @ + 1,
                               !.errors = Append(@, out),
                               !.outcome = "raised", !.result = out]
    /\ UNCHANGED << mainVars, stderr_thread >>

\* clear_sessions that posts whatever confirm is
clear_sessions_unconfirmed ==
    /\ client.op = "sessions_clear"
    /\ client.outcome = "running"
    /\ \E out \in HttpReplies \cup HttpErrors :
         client' = [client EXCEPT
             !.http = @ + 1,
             !.errors = IF out \in HttpErrors THEN Append(@, out) ELSE @,
             !.outcome = "returned",
             !.result = ClearResult(out)]
    /\ UNCHANGED << mainVars, stderr_thread >>

\* fiddler_mcp__sessions_clear and clear_sessions: without confirm the
\* "Confirmation required" failure is returned; with it POST /api/clear is
\* sent once through self.request and the reply or the error mapped to the
\* result
clear_sessions ==
    /\ client.op = "sessions_clear"
    /\ client.outcome = "running"
    /\ IF ~client.confirm
       THEN client' = [client EXCEPT !.outcome = "returned",
                                     !.result = "confirmation_required"]
       ELSE \E out \in HttpReplies \cup HttpErrors :
              client' = [client EXCEPT
                  !.http = @ + 1,
                  !.errors = IF out \in HttpErrors THEN Append(@, out)
                             ELSE @,
                  !.outcome = "returned",
                  !.result = ClearResult(out)]
    /\ UNCHANGED << mainVars, stderr_thread >>

\* the bridge serving one tool call
BridgeInit ==
    /\ pc = "start"
    /\ sigintMode = "handler"
    /\ proc = "none"
    /\ logOpen = FALSE
    /\ closeExit = ""
    /\ request_id = 0
    /\ inflight = Idle
    /\ stdinQ = << >>
    /\ stdoutQ = << >>
    /\ lastResp = [req |-> 0, resp |-> 0]
    /\ timeouts = 0
    /\ notifSent = 0
    /\ handshake = "none"
    /\ server = "bridge"
    /\ model = "compliant"
    /\ auto_save_full_bodies = FALSE
    /\ session_dumps = 0
    /\ stderr_thread = NoThread
    /\ client \in
         { Client("session_body", r, x, FALSE, FALSE, m) :
             r \in BOOLEAN, x \in BOOLEAN, m \in 0..DEFAULT_MAX_RETRIES }
         \cup
         { Client("sessions_clear", FALSE, FALSE, c, u, DEFAULT_MAX_RETRIES) :
             c \in BOOLEAN, u \in BOOLEAN }
    /\ srvTools = BridgeTools
    /\ available_tools = {}
    /\ max_followups = 1
    /\ conversation_history = << >>
    /\ agentCalls = 0
    /\ tool_call_count = 0
    /\ followup_count = 0
    /\ site = "first"
    /\ cand = NoName
    /\ tool_name = NoName
    /\ result = NoResult
    /\ body_data = NoResult
    /\ lastGen = NoGen
    /\ genCalls = 0
    /\ ret = Ret("none", EmptyText)
    /\ cancelled = NoCancel

BridgeNext ==
    \/ request_with_retry
    \/ clear_sessions

SpecBridge == BridgeInit /\ [][BridgeNext]_vars

(***************************************************************************)
(* The stderr thread beside the main thread.  pc is the position of the    *)
(* main thread alone: when it has left main() the daemon thread still      *)
(* runs, until the interpreter has shut down.                              *)
(***************************************************************************)
\* the child writes a line to its stderr
ServerLog ==
    /\ proc = "alive"
    /\ stderr_thread.pc # "none"
    /\ stderr_thread.produced < MaxStderrLines
    /\ stderr_thread' = [stderr_thread EXCEPT !.pending = @ + 1,
                                               !.produced = @ + 1]
    /\ UNCHANGED << mainVars, client >>

\* a thread that takes its lines from the child's stdout
StderrReadline_from_stdout ==
    /\ stderr_thread.pc = "readline"
    /\ stdoutQ # << >>
    /\ stdoutQ' = Tail(stdoutQ)
    /\ stderr_thread' = [stderr_thread EXCEPT !.pc = "check"]
    /\ UNCHANGED << pc, sigintMode, proc, logOpen, closeExit, request_id,
                    inflight, stdinQ, lastResp, timeouts, notifSent,
                    handshake, server, model, auto_save_full_bodies,
                    session_dumps, client, srvTools, available_tools,
                    max_followups, conversation_history, chatVars, ret,
                    cancelled >>

\* line = self.mcp_process.stderr.readline(): a line when one is in the
\* pipe, "" (and the break) when the child has gone and the pipe is empty;
\* otherwise the thread blocks
StderrReadline ==
    /\ stderr_thread.pc = "readline"
    /\ \/ /\ stderr_thread.pending > 0
          /\ stderr_thread' = [stderr_thread EXCEPT !.pending = @ - 1,
                                                     !.pc = "check"]
       \/ /\ stderr_thread.pending = 0
          /\ proc = "dead"
          /\ stderr_thread' = [stderr_thread EXCEPT !.pc = "done"]
    /\ UNCHANGED << mainVars, client >>

\* "if self.mcp_stderr_file and not self.mcp_stderr_file.closed": a line
\* read while the log is closed is dropped
StderrCheck ==
    /\ stderr_thread.pc = "check"
    /\ stderr_thread' =
         [stderr_thread EXCEPT !.pc = IF logOpen THEN "write" ELSE "readline"]
    /\ UNCHANGED << mainVars, client >>

\* write and flush: the line goes to the log; when close() has closed the
\* handle since the test, the write raises, the handler finds the log
\* closed and the thread ends
StderrWrite ==
    /\ stderr_thread.pc = "write"
    /\ stderr_thread' =
         IF logOpen
         THEN [stderr_thread EXCEPT !.logged = @ + 1, !.pc = "readline"]
         ELSE [stderr_thread EXCEPT !.pc = "failed"]
    /\ UNCHANGED << mainVars, client >>

\* the session with its stderr thread: the main thread's steps and the
\* thread's, in any order
ReaderInit ==
    /\ pc = "start"
    /\ sigintMode \in {"handler", "default"}
    /\ proc = "none"
    /\ logOpen = FALSE
    /\ closeExit = ""
    /\ request_id = 0
    /\ inflight = Idle
    /\ stdinQ = << >>
    /\ stdoutQ = << >>
    /\ lastResp = [req |-> 0, resp |-> 0]
    /\ timeouts = 0
    /\ notifSent = 0
    /\ handshake = "none"
    /\ server = "bridge"
    /\ model = "terse"
    /\ auto_save_full_bodies = FALSE
    /\ session_dumps = 0
    /\ stderr_thread = NoThread
    /\ client = NoClient
    /\ srvTools = BridgeTools
    /\ available_tools = {}
    /\ max_followups = 1
    /\ conversation_history = << >>
    /\ agentCalls = 0
    /\ tool_call_count = 0
    /\ followup_count = 0
    /\ site = "first"
    /\ cand = NoName
    /\ tool_name = NoName
    /\ result = NoResult
    /\ body_data = NoResult
    /\ lastGen = NoGen
    /\ genCalls = 0
    /\ ret = Ret("none", EmptyText)
    /\ cancelled = NoCancel

ReaderNext ==
    \/ Start
    \/ InitializeReply
    \/ ListTools
    \/ ListToolsReply
    \/ Query
    \/ GenInitial
    \/ CallTool
    \/ ToolReply
    \/ GenAnalysis
    \/ GenFollowup
    \/ Quit
    \/ SigintHandler
    \/ ServerHandle
    \/ ServerDie
    \/ ServerLog
    \/ StderrReadline
    \/ StderrCheck
    \/ StderrWrite

SpecReader == ReaderInit /\ [][ReaderNext]_vars

(***************************************************************************)
(* One chat call from its first generate_content to its return: the        *)
(* handshake is done, the user record is appended, the model explains      *)
(* itself before it asks for a tool and Ctrl+C raises KeyboardInterrupt.   *)
(***************************************************************************)
ChatInit ==
    /\ pc = "gen_initial"
    /\ sigintMode = "default"
    /\ proc = "alive"
    /\ logOpen = TRUE
    /\ closeExit = ""
    /\ request_id = 2
    /\ inflight = Idle
    /\ stdinQ = << >>
    /\ stdoutQ = << >>
    /\ lastResp = [req |-> 2, resp |-> 2]
    /\ timeouts = 0
    /\ notifSent = 1
    /\ handshake = "ok"
    /\ server = "bridge"
    /\ model = "chatty"
    /\ auto_save_full_bodies = FALSE
    /\ session_dumps = 0
    /\ stderr_thread = NoThread
    /\ client = NoClient
    /\ srvTools = BridgeTools
    /\ available_tools = srvTools
    /\ max_followups \in 1..(MaxCeiling + 1)
    /\ conversation_history = << Rec("user", NoName, PlainText, NoResult) >>
    /\ agentCalls = 1
    /\ tool_call_count = 0
    /\ followup_count = 0
    /\ site = "first"
    /\ cand = NoName
    /\ tool_name = NoName
    /\ result = NoResult
    /\ body_data = NoResult
    /\ lastGen = NoGen
    /\ genCalls = 1
    /\ ret = Ret("none", EmptyText)
    /\ cancelled = NoCancel

ChatNext ==
    \/ GenInitial
    \/ GenRetry
    \/ CallTool
    \/ ToolReply
    \/ ServerHandle
    \/ ServerDie
    \/ GenAnalysis
    \/ GenFollowup
    \/ SigintDefault

SpecChat == ChatInit /\ [][ChatNext]_vars

(***************************************************************************)
(* Properties.                                                             *)
(***************************************************************************)
\* C1: on a session whose handshake succeeded, one chat performs at most
\* max_followups (the turn-budget ceiling) call_tool executions.
C1_AtMostCeilingInvocations ==
    handshake = "ok" => tool_call_count <= max_followups

\* C2: on a session whose handshake succeeded, one chat issues at most
\* ceiling + 1 generate_content calls.
C2_AtMostCeilingPlusOneAgentCalls ==
    handshake = "ok" => genCalls <= max_followups + 1

\* C3: on a session whose handshake succeeded, a reply returned by
\* send_mcp_request for the request with id N is the reply carrying id N.
C3_ReplyMatchesRequestId ==
    handshake = "ok" => lastResp.resp = lastResp.req

\* C4: the initialized notification is sent at most once, and every
\* tools/list or tools/call request on the wire was written after it.
C4_NotificationBeforeListAndCall ==
    /\ notifSent <= 1
    /\ (inflight.written /\ inflight.method \in {"tools/list", "tools/call"})
         => notifSent = 1

\* C5: after a failed handshake no discovery request is written and no
\* agent call or tool call is made.
C5_HandshakeFailureIsFatal ==
    handshake = "failed" =>
        /\ ~(inflight.written /\ inflight.method # "initialize")
        /\ pc \notin {"list_wait", "prompt"} \cup ChatPcs
        /\ agentCalls = 0

\* C6: on a session whose handshake succeeded and while the query is not
\* cancelled, an agent call that yields no text at any call site is
\* followed by one retry, and chat ends after an empty retry by returning a
\* non-empty explanatory message.
C6_EmptyOutputRetriedOnce ==
    (handshake = "ok" /\ cancelled = NoCancel) =>
        /\ (lastGen.out = "empty" /\ lastGen.site # "retry")
             => pc = "gen_retry"
        /\ (lastGen.out = "empty" /\ lastGen.site = "retry")
             => (pc = "prompt" /\ ret.kind = "answer"
                 /\ ret.text = BlockedMessage)

\* C7: on a session whose handshake succeeded, a query the operator
\* cancelled returns the interruption notice, and the system note is the
\* record appended last to the turn log.
C7_CancelReturnsInterruptNotice ==
    (handshake = "ok" /\ cancelled.at # "") =>
        /\ ret.kind = "interrupt"
        /\ conversation_history # << >> =>
             conversation_history[Len(conversation_history)].role = "system"

\* C8: on a session whose handshake succeeded, a cancellation is never
\* honoured while a request that was written to the tool server still
\* awaits its reply.
C8_CancelWaitsForInflightReply == handshake = "ok" => ~cancelled.written

\* C9: a candidate name that is in the catalog is resolved to itself.
C9_CatalogNameResolvesToItself ==
    (pc # "call_tool" /\ cand \in available_tools) =>
        /\ tool_name = cand
        /\ pc = "tool_wait"
        /\ inflight.name = cand

\* C10 as stated: every alias-table name is resolved to the canonical name
\* its table maps it to, and that tool is invoked.
C10_AliasInvokesTarget ==
    (pc # "call_tool" /\ cand \in AliasNames) =>
        /\ tool_name = AliasTarget(cand)
        /\ pc = "tool_wait"
        /\ inflight = [id |-> request_id, method |-> "tools/call",
                       name |-> AliasTarget(cand), written |-> TRUE,
                       full |-> FALSE, extract |-> "False"]

\* C10, amended: every alias-table name whose mapped canonical name is in
\* the catalog is resolved to that name, and one tools/call request for
\* that tool is written.
C10_AliasInvokesTargetInCatalog ==
    (pc # "call_tool" /\ cand \in AliasNames
        /\ AliasTarget(cand) \in available_tools) =>
        /\ tool_name = AliasTarget(cand)
        /\ pc = "tool_wait"
        /\ inflight = [id |-> request_id, method |-> "tools/call",
                       name |-> AliasTarget(cand), written |-> TRUE,
                       full |-> FALSE, extract |-> "False"]

\* the candidate live_sessions went out as fiddler_mcp__live_sessions
C10_Witness ==
    /\ pc = "tool_wait"
    /\ cand = U("live_sessions")
    /\ inflight.written
    /\ inflight.name = P("live_sessions")

\* C11 as stated: a candidate name that is in neither the catalog nor the
\* alias tables fails to resolve: no request is written, and the failure
\* carries a valid-name list equal to the catalog's name set.
C11_UnknownNameFails ==
    (pc # "call_tool" /\ cand \notin available_tools
        /\ cand \notin AliasNames) =>
        /\ pc = "gen_analysis"
        /\ inflight = Idle
        /\ request_id = 2
        /\ conversation_history[Len(conversation_history)].role = "tool"
        /\ conversation_history[Len(conversation_history)].result.error
        /\ conversation_history[Len(conversation_history)].result.valid
             = available_tools

\* C11, amended: a candidate name that is in neither the catalog nor the
\* alias tables and is not of the two-part dotted form ns.suffix fails to
\* resolve: no request is written, and the failure carries a valid-name
\* list equal to the catalog's name set.
C11_UndottedUnknownNameFails ==
    (pc # "call_tool" /\ cand \notin available_tools
        /\ cand \notin AliasNames
        /\ (cand.pre \/ Len(cand.parts) # 2)) =>
        /\ pc = "gen_analysis"
        /\ inflight = Idle
        /\ request_id = 2
        /\ conversation_history[Len(conversation_history)].role = "tool"
        /\ conversation_history[Len(conversation_history)].result.error
        /\ conversation_history[Len(conversation_history)].result.valid
             = available_tools

\* the candidate no_such_tool was rejected with the bridge's catalog as the
\* valid-name list
C11_Witness ==
    /\ pc = "gen_analysis"
    /\ cand = U("no_such_tool")
    /\ available_tools = BridgeTools
    /\ inflight = Idle
    /\ conversation_history[Len(conversation_history)].result.valid
         = BridgeTools

\* C12: on a session whose handshake succeeded, every tool result folded
\* into the turn log for an invocation that failed (the transport could not
\* reach the child, timed out or read an unparseable line, or the tool
\* server answered that the call failed) contains an error field.
C12_FailedCallCarriesErrorField ==
    handshake = "ok" =>
        \A i \in DOMAIN conversation_history :
            (conversation_history[i].role = "tool"
                /\ conversation_history[i].result.src
                     \in {"error", "error_text"})
            => conversation_history[i].result.error

\* C13: on a session whose handshake succeeded, once the child has died the
\* orchestration loop makes no further agent call and counts no further
\* tool call.
C13_NoCallAfterProcessDeath ==
    [][(proc = "dead" /\ handshake = "ok") =>
          /\ agentCalls' = agentCalls
          /\ tool_call_count' <= tool_call_count]_vars

\* C14: when the automatic body fetch after a successful search fails (an
\* error dictionary of the transport or of the tool server, success false,
\* the text of a failed call, or a reply that does not normalize to a
\* mapping), call_tool does not raise and returns the search result with
\* success and its matches, the failure attached under _follow_up.
C14_FetchFailureIsAttachedAsNote ==
    [][(pc = "fetch_wait" /\ pc' # "fetch_wait" /\ Responses # {}) =>
          LET b == parse_tool_response(CHOOSE r \in Responses : TRUE) IN
          (b.type # "dict" \/ b.success = "false"
              \/ b.src \in {"error", "error_text"}) =>
              /\ ret'.kind # "error"
              /\ pc' \in {"gen_analysis", "gen_followup"}
              /\ conversation_history'[Len(conversation_history')].role
                   = "tool"
              /\ conversation_history'[Len(conversation_history')].result
                   .success = "true"
              /\ conversation_history'[Len(conversation_history')].result
                   .sessions = result.sessions
              /\ conversation_history'[Len(conversation_history')].result
                   .follow # "none"]_vars

C16_RefetchExtractsLargeJavaScriptOnly ==
    /\ request_id <= 5
    /\ pc = "refetch_wait" =>
         /\ request_id = 5
         /\ inflight.id = 5
         /\ inflight.name = P("session_body")
         /\ inflight.full
         /\ inflight.extract =
              IF /\ body_data.js
                 /\ body_data.size.present
                 /\ body_data.size.n > 50000
              THEN "True" ELSE "False"
    /\ (pc = "gen_analysis"
          /\ conversation_history[Len(conversation_history)].result.follow
               = "extracted") =>
         /\ conversation_history[Len(conversation_history)].result.success
              = "true"
         /\ conversation_history[Len(conversation_history)].result.sessions
              > 0

\* C17: for every reply line of the tool server that is JSON, the
\* normalizer returns a mapping; when the reply carries a content list
\* whose first item is a text item, that is the parsed form of a text that
\* parses as structured data and {text: ...} of any other text; a flat
\* mapping is returned unchanged.
C17_NormalizerReturnsMapping ==
    \A i \in DOMAIN stdoutQ :
        stdoutQ[i].key # "garbage" =>
            /\ parse_tool_response(stdoutQ[i]).type = "dict"
            /\ (/\ stdoutQ[i].key = "result"
                /\ stdoutQ[i].payload.dict
                /\ stdoutQ[i].payload.content # << >>
                /\ stdoutQ[i].payload.content[1].isdict
                /\ stdoutQ[i].payload.content[1].type = "text") =>
                   parse_tool_response(stdoutQ[i]) =
                     IF stdoutQ[i].payload.content[1].text = "object"
                     THEN stdoutQ[i].payload.payload
                     ELSE [NoResult EXCEPT !.src =
                             IF stdoutQ[i].payload.content[1].text
                                  = "error_message"
                             THEN "error_text" ELSE "text"]
            /\ (/\ stdoutQ[i].key = "result"
                /\ stdoutQ[i].payload.dict
                /\ stdoutQ[i].payload.content = << >>
                /\ stdoutQ[i].payload.flat) =>
                   parse_tool_response(stdoutQ[i]) = stdoutQ[i].payload.payload

\* C18: on a session whose handshake succeeded, every value call_tool
\* returned (the result of every tool record) is a mapping with a boolean
\* success field, and with an error whenever success is false.
C18_ResultHasSuccessField ==
    handshake = "ok" =>
        \A i \in DOMAIN conversation_history :
            conversation_history[i].role = "tool" =>
                /\ conversation_history[i].result.type = "dict"
                /\ conversation_history[i].result.success
                     \in {"true", "false"}
                /\ conversation_history[i].result.success = "false"
                     => conversation_history[i].result.error

\* C19: once close() has been called, whichever way it was left, the log
\* handle is closed and the child is not running any more.
C19_CloseReleasesLogAndChild ==
    closeExit # "" => (~logOpen /\ proc # "alive")

\* C20: send_mcp_request never changes the state of the child, and when it
\* returns a failure it returns an error dictionary and leaves the session
\* as it was (the request id was consumed when the request was made): the
\* timeout error exactly when the request was written, no line came and
\* the child is running, the closed-connection error exactly when no line
\* is left and the child has exited, the invalid-JSON error exactly when
\* the line read is not JSON.
C20_RequestFailureIsErrorValue ==
    [][(/\ pc \in {"init_wait", "list_wait", "tool_wait", "fetch_wait",
                   "refetch_wait"}
        /\ inflight' # inflight
        /\ ret'.kind # "interrupt"
        /\ Responses # {}) =>
          LET resp == CHOOSE r \in Responses : TRUE IN
          /\ proc' = proc
          /\ resp.err # "" =>
               /\ resp.key = "error"
               /\ resp.err \in {"terminated", "timeout", "closed",
                                "invalid_json"}
               /\ request_id' = request_id
               /\ stdinQ' = stdinQ
               /\ notifSent' = notifSent
               /\ available_tools' = available_tools
               /\ logOpen' = logOpen
               /\ (resp.err = "timeout") <=>
                    (inflight.written /\ stdoutQ = << >> /\ proc = "alive")
               /\ (resp.err = "closed") <=>
                    (inflight.written /\ stdoutQ = << >> /\ proc = "dead")
               /\ (resp.err = "invalid_json") <=>
                    (/\ inflight.written
                     /\ stdoutQ # << >>
                     /\ Head(stdoutQ).key = "garbage")]_vars

\* a tool call ran into the 30 s timeout: its error dictionary was folded
\* into the turn log and the child is still running
C20_Witness ==
    /\ timeouts = 1
    /\ proc = "alive"
    /\ pc = "gen_analysis"
    /\ tool_name = P("sessions_search")
    /\ conversation_history[Len(conversation_history)].role = "tool"
    /\ conversation_history[Len(conversation_history)].result.src = "error"

(***************************************************************************)
(* Discovery and the start of the orchestration loop.                      *)
(***************************************************************************)
\* C21: list_tools returns the empty catalog on any error reply, and with an
\* empty catalog main() ends before the loop starts: the prompt is never
\* reached, no agent call is made and no tools/call request is sent.
C21_EmptyCatalogNeverStartsLoop ==
    [][/\ (pc = "list_wait" /\ inflight' = Idle /\ Responses # {}) =>
            LET resp == CHOOSE r \in Responses : TRUE IN
            /\ resp.key = "error" => available_tools' = {}
            /\ available_tools' = {} => pc' = "exited"
       /\ available_tools' = {} =>
            /\ pc' \notin ChatPcs \cup {"prompt"}
            /\ agentCalls' = 0
            /\ genCalls' = 0
            /\ tool_call_count' = 0
            /\ conversation_history' = << >>
            /\ inflight'.method # "tools/call"
            /\ \A i \in 1..Len(stdinQ') : stdinQ'[i].method # "tools/call"]_vars

\* discovery failed against a server that has tools: the catalog stayed
\* empty and main() left through sys.exit(1), without close()
C21_Witness ==
    /\ pc = "exited"
    /\ closeExit = ""
    /\ handshake = "ok"
    /\ request_id = 2
    /\ inflight = Idle
    /\ srvTools # {}
    /\ available_tools = {}
    /\ agentCalls = 0

(***************************************************************************)
(* The counters and the turn log of chat().                                *)
(***************************************************************************)
\* C23: the counter compared against the ceiling starts at zero for each
\* query, never decreases during the query, and counts the tool invocations
\* of the query: whenever chat has compared it and goes on to invoke a tool,
\* it equals the number of invocations performed so far.
C23_TurnCounterCountsInvocations ==
    [][handshake' = "ok" =>
         /\ (pc = "prompt" /\ pc' = "gen_initial") => followup_count' = 0
         /\ pc # "prompt" => followup_count' >= followup_count
         /\ pc' = "call_tool" => followup_count' = tool_call_count']_vars

\* C24: across chat calls and operator commands the turn log only grows at
\* its end, every record already in it staying as it is and where it is;
\* the one exception is /clear, which empties the whole log.
C24_TurnLogIsAppendOnly ==
    [][\/ conversation_history' = conversation_history
       \/ /\ Len(conversation_history') > Len(conversation_history)
          /\ SubSeq(conversation_history', 1, Len(conversation_history))
               = conversation_history
       \/ /\ pc = "prompt"
          /\ pc' = "prompt"
          /\ conversation_history' = << >>]_vars

\* a query with one tool call has returned: the log holds the user's
\* record, the tool's record and the agent's record, in that order
C24_Witness ==
    /\ pc = "prompt"
    /\ Len(conversation_history) = 3
    /\ conversation_history[1].role = "user"
    /\ conversation_history[2].role = "tool"
    /\ conversation_history[3].role = "assistant"
    /\ ret.kind = "answer"

(***************************************************************************)
(* Request ids.                                                            *)
(***************************************************************************)
\* C25: every request call takes the next value of a counter that only
\* grows, whether the request is written, fails or later times out, so the
\* requests of a session carry pairwise different ids.
C25_RequestIdsAreFresh ==
    [][/\ request_id' >= request_id
       /\ (inflight' # inflight /\ inflight' # Idle) =>
            /\ request_id' = request_id + 1
            /\ inflight'.id = request_id'
       /\ request_id' # request_id => inflight'.id = request_id'
       /\ \A i \in 1..Len(stdinQ') :
            /\ stdinQ'[i].id <= request_id'
            /\ \A j \in 1..Len(stdinQ') :
                 (i < j /\ stdinQ'[i].id # 0 /\ stdinQ'[j].id # 0)
                   => stdinQ'[i].id < stdinQ'[j].id]_vars

\* the tool call with id 3 timed out and the next request of the session
\* went out with id 4
C25_Witness ==
    /\ timeouts = 1
    /\ lastResp.req = 2
    /\ inflight.id = 4
    /\ inflight.written
    /\ request_id = 4

(***************************************************************************)
(* The extractor and chat's use of it.                                     *)
(***************************************************************************)
\* the text chat handed to parse_gemini_response after the last agent call
ParsedText ==
    IF lastGen.site = "analysis" /\ lastGen.out = "empty"
    THEN BlockedMessage
    ELSE lastGen.text

\* C22: whenever parse_gemini_response returns None for the text of an
\* agent call, chat has returned: that text is the answer and the last
\* record of the turn log, as the agent's record, and no request is out.
C22_NoCandidateEndsQuery ==
    (/\ lastGen.site \in {"initial", "retry", "analysis"}
     /\ lastGen.out # "raise"
     /\ ~(lastGen.site = "initial" /\ lastGen.out = "empty")
     /\ parse_gemini_response(ParsedText) = NoCandidate) =>
        /\ pc = "prompt"
        /\ inflight = Idle
        /\ ret = Ret("answer", ParsedText)
        /\ conversation_history[Len(conversation_history)]
             = Rec("assistant", NoName, ParsedText, NoResult)

\* after one tool call the agent answered in prose: chat returned that text
C22_Witness ==
    /\ lastGen.site = "analysis"
    /\ lastGen.text = PlainText
    /\ tool_call_count = 1
    /\ pc = "prompt"
    /\ ret.kind = "answer"

\* the agent call whose text was handed to parse_gemini_response as it is
TextWasParsed ==
    /\ lastGen.site \in {"initial", "retry", "analysis"}
    /\ lastGen.out = "text"

\* the text is one {tool, arguments} object, whatever surrounds it
WellFormedCall(text) ==
    /\ Len(text.segs) = 1
    /\ text.segs[1].k = "object"
    /\ text.segs[1].shape = "call"

\* C26: for a text that is one well-formed {tool, arguments} object, with
\* or without whitespace around it and with or without a code fence around
\* it, parse_gemini_response returns that tool and that argument mapping,
\* and chat goes on with that tool.
C26_WellFormedCallIsExtracted ==
    (TextWasParsed /\ WellFormedCall(lastGen.text)) =>
        /\ parse_gemini_response(lastGen.text)
             = Cand(lastGen.text.segs[1].tool, lastGen.text.segs[1].arg,
                    "json")
        /\ cand = lastGen.text.segs[1].tool

\* no piece of the text has anything of a call: no tool or tool_code key,
\* no fiddler_mcp__name( anywhere
NoCallSyntax(text) ==
    \A i \in 1..Len(text.segs) :
      LET s == text.segs[i] IN
      \/ s.k = "prose"
      \/ s.k = "object" /\ s.shape = "other"
      \/ s.k = "scalar" /\ s.shape = "plain"
      \/ s.k = "array" /\ \A j \in 1..Len(s.elems) :
                            /\ s.elems[j].k \in {"object", "scalar"}
                            /\ s.elems[j].shape \in {"other", "plain"}

ArrayOfCalls(text) ==
    /\ Len(text.segs) = 1
    /\ text.segs[1].k = "array"
    /\ Len(text.segs[1].elems) >= 2
    /\ \A i \in 1..Len(text.segs[1].elems) :
         /\ text.segs[1].elems[i].k = "object"
         /\ text.segs[1].elems[i].shape = "call"

\* the tool records of the turn log
ToolRecords == SelectSeq(conversation_history, LAMBDA r : r.role = "tool")

\* C28: for a text that is an array of several calls parse_gemini_response
\* returns the first element and the note about the other calls is printed;
\* chat invokes that one tool for the text and no other: the k-th text of
\* the query accounts for the k-th tool record at most, and that record is
\* of the first element's tool.
C28_ArrayGivesFirstCallOnly ==
    (TextWasParsed /\ ArrayOfCalls(lastGen.text)) =>
        LET first == lastGen.text.segs[1].elems[1]
            n == IF lastGen.site = "analysis" THEN 2 ELSE 1
        IN  /\ parse_gemini_response(lastGen.text)
                 = Cand(first.tool, first.arg, "json")
            /\ MultipleCallsNote(lastGen.text)
            /\ cand = first.tool
            /\ tool_call_count <= n
            /\ Len(ToolRecords) <= n
            /\ Len(ToolRecords) = n => ToolRecords[n].tool = first.tool

\* the first text of the query asked for T1 and T2 at once: T1 alone was
\* invoked, and the agent is asked to analyse its result
C28_Witness ==
    /\ lastGen.site = "initial"
    /\ lastGen.text = ExtractText(FALSE, "none",
                                  << Arr(<< Obj("call", T1, 1, FALSE),
                                            Obj("call", T2, 2, FALSE) >>) >>)
    /\ pc = "gen_analysis"
    /\ tool_call_count = 1
    /\ Len(ToolRecords) = 1
    /\ ToolRecords[1].tool = T1

\* C30: parse_gemini_response returns None only when none of its steps
\* finds a candidate in the text left after the fence step: not the whole
\* text, not the scan for embedded objects, not the scan for embedded
\* arrays, not the scan for the bare call syntax.
C30_NoneOnlyWhenNoStepMatches ==
    (TextWasParsed /\ parse_gemini_response(lastGen.text) = NoCandidate) =>
        LET body == Unfenced(lastGen.text) IN
        /\ IsJson(body) => process_tool_call_data(body[1]) = NoCandidate
        /\ FirstCand(ObjectMatches(body)) = NoCandidate
        /\ FirstCand(ArrayMatches(body)) = NoCandidate
        /\ BareMatches(body) = << >>

(***************************************************************************)
(* Termination of chat().                                                  *)
(***************************************************************************)
\* C29: every suspension point of the session is bounded by a timeout, so
\* a chat that has started eventually returns (or the program ends),
\* whether or not the agent and the tool server answer.
C29_ChatEventuallyReturns ==
    (pc \in ChatPcs) ~> (pc \notin ChatPcs)

(***************************************************************************)
(* Unresolved names and the turn budget.                                   *)
(***************************************************************************)
\* the tool records of the query in progress whose result is the
\* unknown-tool failure
UnknownRecords ==
    LET users == { i \in 1..Len(conversation_history) :
                     conversation_history[i].role = "user" }
        from == IF users = {} THEN 0
                ELSE CHOOSE i \in users : \A j \in users : j <= i
    IN  { i \in (from + 1)..Len(conversation_history) :
            /\ conversation_history[i].role = "tool"
            /\ conversation_history[i].result.src = "error"
            /\ conversation_history[i].result.valid # {} }

\* C31: a call whose name is not in the catalog after rewriting takes no
\* request id and writes nothing to the child, is appended to the turn log
\* as a tool record with the error and the whole valid-name list, and
\* consumes one unit of the turn budget: when chat next compares the
\* counter with the ceiling, every such call of the query has been counted.
C31_UnresolvedCallIsCountedNotSent ==
    [][handshake = "ok" =>
         /\ (/\ pc = "call_tool"
             /\ ResolveName(cand) \notin available_tools
             /\ pc' \in {"gen_analysis", "gen_followup"}) =>
                /\ request_id' = request_id
                /\ stdinQ' = stdinQ
                /\ inflight' = inflight
                /\ conversation_history' =
                     Append(conversation_history,
                            Rec("tool", cand, EmptyText,
                                UnknownToolResult(available_tools)))
                /\ tool_call_count' = tool_call_count + 1
         /\ pc' = "call_tool" =>
              followup_count' >= Cardinality(UnknownRecords')]_vars

(***************************************************************************)
(* Roles of the records of the turn log.                                   *)
(***************************************************************************)
\* the role of the record a step appends, "" when it appends none
AppendedRole ==
    IF Len(conversation_history') > Len(conversation_history)
    THEN conversation_history'[Len(conversation_history')].role
    ELSE ""

\* C34 as stated: every record appended to the turn log has one of the
\* four roles user, assistant (the agent), tool, system, on every path of
\* chat, the generic failure path included.
C34_RolesAreFourKinds ==
    \A i \in 1..Len(conversation_history) :
        conversation_history[i].role \in {"user", "assistant", "tool", "system"}

\* C34 amended: every record appended to the turn log has one of the five
\* roles user, assistant, tool, system, error; the role error is appended
\* by the generic failure path and by no other, and that path appends no
\* other role.
C34_RolesAreFiveKinds ==
    [][/\ AppendedRole \in {"", "user", "assistant", "tool", "system", "error"}
       /\ AppendedRole = "error" <=>
            (pc \in ChatPcs /\ pc' = "prompt" /\ ret'.kind = "error")]_vars

C34_Witness ==
    /\ ret.kind = "error"
    /\ conversation_history # << >>
    /\ conversation_history[Len(conversation_history)].role = "error"
    /\ conversation_history[1].role = "user"

(***************************************************************************)
(* The records one chat call leaves in the turn log.                       *)
(***************************************************************************)
\* the records of the latest chat call: from its user record to the end
ChatRecords(h) ==
    LET users == { i \in 1..Len(h) : h[i].role = "user" }
    IN  IF users = {} THEN << >>
        ELSE SubSeq(h, CHOOSE i \in users : \A j \in users : j <= i, Len(h))

\* C40: when chat returns, the records it appended start with the user
\* record and end with one closing record (the final answer, the system
\* interruption note or the failure record; no interruption or failure
\* record comes earlier), the tool records among them are as many as the
\* invocations it completed, each appended by the step that completed the
\* invocation and naming the tool that was asked for, and on a normal
\* answer the returned text is the text of the closing record.
C40_ChatRecordsAreBracketed ==
    [][/\ (pc \in ChatPcs /\ pc' = "prompt") =>
            LET recs == ChatRecords(conversation_history')
                n == Len(recs)
            IN  /\ n >= 2
                /\ recs[1].role = "user"
                /\ << ret'.kind, recs[n].role >> \in
                     { << "answer", "assistant" >>,
                       << "interrupt", "system" >>,
                       << "error", "error" >> }
                /\ \A i \in 1..(n - 1) : recs[i].role \notin {"system", "error"}
                /\ \A i \in 2..n : recs[i].role # "user"
                /\ Len(SelectSeq(recs, LAMBDA r : r.role = "tool"))
                     = tool_call_count'
                /\ ret'.kind = "answer" => ret'.text = recs[n].text
       /\ (pc \in ChatPcs /\ tool_call_count' # tool_call_count) =>
            /\ tool_call_count' = tool_call_count + 1
            /\ Len(conversation_history') = Len(conversation_history) + 1
            /\ conversation_history'[Len(conversation_history')].role = "tool"
            /\ conversation_history'[Len(conversation_history')].tool = cand
       /\ (pc \in ChatPcs /\ AppendedRole = "tool") =>
            tool_call_count' = tool_call_count + 1]_vars

\* chat returned an answer after two completed invocations and one
\* explanatory text
C40_Witness ==
    /\ pc = "prompt"
    /\ ret.kind = "answer"
    /\ tool_call_count = 2
    /\ Len(ToolRecords) = 2
    /\ Len(conversation_history) = 5
    /\ conversation_history[5].role = "assistant"
    /\ conversation_history[5].text = ret.text

(***************************************************************************)
(* The requests of one call_tool invocation.                               *)
(***************************************************************************)
\* the id of the request call_tool wrote for the tool it was asked for
FirstRequestId == 3

FollowUps ==
    { ToolRecords[i].result.fu : i \in
        { j \in 1..Len(ToolRecords) : ToolRecords[j].result.follow # "none" } }

\* C32: a request or response body of an attached follow-up that came in
\* longer than the limit of the preview is cut and ends with the
\* "shortened" marker (or is replaced by the formatted extraction); with
\* auto_save_full_bodies on the whole body is written under session_dumps
\* and its path attached, with auto_save_full_bodies off no file is written
\* and no path attached.
C32_LongBodiesAreClippedAndSaved ==
    /\ \A f \in FollowUps :
         /\ f.over => (f.clipped \/ f.analyzed)
         /\ f.rover => f.rclipped
         /\ auto_save_full_bodies => /\ f.over => f.path
                                     /\ f.rover => f.rpath
         /\ ~auto_save_full_bodies => ~f.path /\ ~f.rpath
    /\ ~auto_save_full_bodies => session_dumps = 0

\* C33: when several matches of a search carry the id of the first match,
\* the follow-up attached to the search result has _auto_fetch_metadata
\* with has_duplicate_ids set, whichever way the follow-up went: the
\* preview, the full payload fetched after a truncated preview, or the
\* smart extraction.
C33_DuplicatesKeepTheirMetadata ==
    \A i \in 1..Len(ToolRecords) :
        LET r == ToolRecords[i].result IN
        (r.dup /\ r.follow \in {"body", "full_body", "extracted"}) =>
            (r.fu.meta /\ r.fu.dupflag)

\* C39: the auto_note of an attached follow-up says that the full body was
\* retrieved only when the mapping it is attached to is not an error
\* mapping, and says that the payload was saved only when a file was
\* written and its path is attached.
C39_NoteClaimsOnlyWhatHappened ==
    \A f \in FollowUps :
        /\ f.note \in {"full_body_retrieved", "full_saved_to_path"}
             => ~f.error
        /\ f.note \in {"smart_saved_to_path", "full_saved_to_path",
                       "truncated_saved_to_path", "truncated_saved_to_disk"}
             => f.path

(***************************************************************************)
(* The stderr thread.                                                      *)
(***************************************************************************)
\* a step of the stderr thread (the child's writes leave its position)
ReaderStep ==
    /\ stderr_thread.pc # "none"
    /\ stderr_thread'.pc # stderr_thread.pc

\* what a step of the thread may touch: nothing of the main thread and
\* the child, and at most one more line in the log
ReaderFrame ==
    ReaderStep =>
        /\ UNCHANGED << conversation_history, request_id, available_tools,
                        stdoutQ, stdinQ, inflight, lastResp >>
        /\ UNCHANGED << mainVars, client >>
        /\ stderr_thread'.logged \in
             {stderr_thread.logged, stderr_thread.logged + 1}
        /\ stderr_thread'.produced = stderr_thread.produced
        /\ stderr_thread'.pending \in
             {stderr_thread.pending, stderr_thread.pending - 1}

\* C35 as stated: under every interleaving with the main thread, a step
\* of the stderr thread leaves the turn log, the request-id counter, the
\* catalog and the child's stdout alone, its only effect being a line
\* appended to the log, and the thread leaves its loop only when the
\* child's stderr is at end of stream.
C35_ReaderOnlyLogsUntilEndOfStream ==
    [][/\ ReaderFrame
       /\ (ReaderStep /\ stderr_thread'.pc \notin {"readline", "check", "write"})
            => /\ stderr_thread'.pc = "done"
               /\ proc = "dead"
               /\ stderr_thread.pending = 0]_vars

\* C35 amended: the frame is as stated; the thread leaves its loop at end
\* of stream or, with lines possibly unread, when its write raises because
\* close() closed the log after the thread had tested the handle; a line
\* read while the log is closed is dropped.
C35_ReaderOnlyLogsUntilEndOrClosedLog ==
    [][/\ ReaderFrame
       /\ (ReaderStep /\ stderr_thread'.pc \notin {"readline", "check", "write"})
            => \/ /\ stderr_thread'.pc = "done"
                  /\ proc = "dead"
                  /\ stderr_thread.pending = 0
               \/ /\ stderr_thread'.pc = "failed"
                  /\ stderr_thread.pc = "write"
                  /\ ~logOpen
                  /\ closeExit = "returned"
       /\ (ReaderStep /\ stderr_thread'.logged # stderr_thread.logged)
            => logOpen /\ stderr_thread.pc = "write"]_vars

\* the thread logged a line and, after a query, ended on a closed log
C35_Witness ==
    /\ stderr_thread.pc = "failed"
    /\ stderr_thread.logged = 1
    /\ stderr_thread.produced = 2
    /\ conversation_history # << >>
    /\ request_id >= 3

(***************************************************************************)
(* The bridge's client.                                                    *)
(***************************************************************************)
\* C36: one call of request_with_retry sends at most max_retries + 1
\* requests; it returns the first reply and sends nothing after it; before
\* retry k + 1 it sleeps 2^k seconds (1, 2, 4 with the default of three
\* retries); and when the last allowed attempt fails it raises the error of
\* that attempt.
C36_RetryIsBoundedWithBackoff ==
    [][client.op = "session_body" =>
         /\ client'.http <= client.max_retries + 1
         /\ client'.http <= DEFAULT_MAX_RETRIES + 1
         /\ client.outcome # "running" => client' = client
         /\ client'.waits = [k \in 1..client'.attempt |-> 2 ^ (k - 1)]
         /\ client'.outcome = "running" =>
              /\ client'.http = client'.attempt
              /\ Len(client'.errors) = client'.http
         /\ client'.outcome = "returned" =>
              /\ client'.result \in HttpReplies
              /\ Len(client'.errors) = client'.http - 1
         /\ client'.outcome = "raised" =>
              /\ client'.http = client.max_retries + 1
              /\ Len(client'.errors) = client'.http
              /\ client'.result = client'.errors[Len(client'.errors)]]_vars

\* the default client gave up after four attempts and the sleeps 1, 2, 4
C36_Witness ==
    /\ client.op = "session_body"
    /\ client.max_retries = DEFAULT_MAX_RETRIES
    /\ client.outcome = "raised"
    /\ client.http = 4
    /\ client.waits = << 1, 2, 4 >>
    /\ client.errors[1] # client.errors[4]

\* C37: sessions_clear sends the clear request only when confirm is true:
\* with confirm false it returns the "Confirmation required" failure and
\* sends no HTTP request, with confirm true it sends exactly one request,
\* never sleeps and never retries.
C37_ClearNeedsConfirm ==
    client.op = "sessions_clear" =>
        /\ client.waits = << >>
        /\ client.attempt = 0
        /\ client.http > 0 => client.confirm
        /\ client.outcome = "returned" =>
             /\ ~client.confirm =>
                  /\ client.http = 0
                  /\ client.result = "confirmation_required"
             /\ client.confirm =>
                  /\ client.http = 1
                  /\ client.result # "confirmation_required"
        /\ client.outcome # "raised"

\* an unconfirmed clear was refused
C37_Witness ==
    /\ client.op = "sessions_clear"
    /\ ~client.confirm
    /\ client.outcome = "returned"
    /\ client.result = "confirmation_required"
    /\ client.http = 0

====
